---- MODULE Spec2Model ----
(***************************************************************************)
(* AI Meeting Notes Summarizer.                                            *)
(*                                                                         *)
(* The Workflow Controller is the React component App (App.tsx): its       *)
(* useState cells are the variables, its event handlers are the actions.   *)
(* A gateway call started by a handler stays in flight until the response  *)
(* (or the failure) is delivered, and the handler's continuation runs      *)
(* then.  Strings are sequences of one-character strings, so that trim     *)
(* and split are computed and not assumed.                                 *)
(***************************************************************************)
EXTENDS Integers, Sequences, FiniteSets, TLC

\* ------------------------------------------------------------------------
\* Bounds of the model
\* ------------------------------------------------------------------------
MaxClock == 2
TicksPerDay == 2
MaxHistory == 3
MaxInFlight == 1
\* Voice or text files being processed at once: the file inputs are never
\* disabled
MaxUploads == 2
MaxTimers == 2
MaxPolls == 3

\* ------------------------------------------------------------------------
\* Strings
\* ------------------------------------------------------------------------
WhiteSpace == {" ", "\n"}

RECURSIVE TrimStart(_)
TrimStart(s) ==
  IF s # <<>> /\ Head(s) \in WhiteSpace THEN TrimStart(Tail(s)) ELSE s

RECURSIVE TrimEnd(_)
TrimEnd(s) ==
  IF s # <<>> /\ s[Len(s)] \in WhiteSpace
  THEN TrimEnd(SubSeq(s, 1, Len(s) - 1))
  ELSE s

\* String.prototype.trim
Trim(s) == TrimEnd(TrimStart(s))

\* String.prototype.split with a one-character separator: "a," gives
\* ["a", ""], and "" gives [""].
RECURSIVE Split(_, _)
Split(s, sep) ==
  IF \E i \in 1..Len(s) : s[i] = sep
  THEN LET i == CHOOSE k \in 1..Len(s) :
                  s[k] = sep /\ \A j \in 1..(k - 1) : s[j] # sep
       IN  <<SubSeq(s, 1, i - 1)>> \o Split(SubSeq(s, i + 1, Len(s)), sep)
  ELSE <<s>>

\* Array.prototype.map(email => email.trim())
RECURSIVE MapTrim(_)
MapTrim(a) == IF a = <<>> THEN <<>> ELSE <<Trim(Head(a))>> \o MapTrim(Tail(a))

Digits == <<"0", "1", "2", "3", "4", "5", "6", "7", "8", "9">>

\* Number.prototype.toString (decimal)
RECURSIVE toString(_)
toString(n) ==
  IF n < 10 THEN <<Digits[n + 1]>>
  ELSE toString(n \div 10) \o <<Digits[(n % 10) + 1]>>

\* Date.prototype.toLocaleDateString: the calendar day of the instant.
LocaleDateString(t) == <<"d">> \o toString(t \div TicksPerDay)

\* Date.prototype.toISOString: the instant itself, to the millisecond.
ISOString(t) == <<"t">> \o toString(t)

DefaultPrompt ==
  <<"S", "u", "m", "m", "a", "r", "i", "z", "e", " ", "t", "h", "e", " ", "k",
    "e", "y", " ", "p", "o", "i", "n", "t", "s", " ", "a", "n", "d", " ", "a",
    "c", "t", "i", "o", "n", " ", "i", "t", "e", "m", "s", " ", "f", "r", "o",
    "m", " ", "t", "h", "i", "s", " ", "m", "e", "e", "t", "i", "n", "g", " ",
    "i", "n", " ", "a", " ", "c", "l", "e", "a", "r", ",", " ", "o", "r", "g",
    "a", "n", "i", "z", "e", "d", " ", "f", "o", "r", "m", "a", "t", ".">>

TitlePrefix == <<"S", "u", "m", "m", "a", "r", "y", " ", "-", " ">>

\* `Summary - ${new Date().toLocaleDateString()}`
DefaultTitle(t) == TitlePrefix \o LocaleDateString(t)

\* null / undefined: not a string of characters
Null == <<"null">>

NoSelection == Null

\* Before a request has arrived, and before its response is produced
NoRequest == [method |-> "", form |-> FALSE, audio |-> [name |-> Null, size |-> 0]]
NoResponse == [status |-> 0, body |-> ""]
\* No file saved yet, no chat completion requested yet, no email sent yet
NoDownload == [name |-> <<>>, content |-> <<>>]
NoChat == [system |-> "", user |-> <<>>]
NoResult == [kind |-> "none", content |-> Null]
NoEmail == [to |-> <<>>, subject |-> <<>>, html |-> <<>>]

\* ------------------------------------------------------------------------
\* What the user types and what the gateways answer
\* ------------------------------------------------------------------------
TranscriptInputs == {<<>>, <<" ">>, <<" ", "a", " ">>, <<"b">>}
PromptInputs == {<<>>, <<"p", " ">>}
SummaryInputs == {<<>>, <<" ">>, <<"e">>}
TitleInputs == {<<>>, <<"T", "!">>}
RecipientInputs ==
  {<<>>, <<" ">>, <<"a", ",", " ", "b">>, <<"a", ",">>, <<"a", ",", ",", "b">>}
SummaryContents == {<<"s">>, <<"r">>}
Transcriptions == {<<"v">>}
Ids == {toString(t) : t \in 0..MaxClock}

VARIABLES
  transcript, customPrompt, summary, summaryTitle, emailRecipients,
  isGenerating, isSending, isProcessingVoice,
  message, messageType, timers,
  storedResponses, selectedResponse,
  now,
  summarizeCalls, emailCalls, voiceCalls,
  textReads, savedFile,
  generatedFrom,
  lastOp,
  vtApiKey, vtEnv, vtReq, vtPc, vtUploads, vtSubmits, vtPolls, vtPollLog,
  vtResponse, vtReads, vtOutcomes,
  smApiKey, smEnv, smReq, smPc, smCalls, smOut, smResult, smResponse, smReads,
  emApiKey, emEnv, emReq, emPc, emCalls, emOut, emResult, emResponse, emReads

fields == <<transcript, customPrompt, summary, summaryTitle, emailRecipients>>
flags == <<isGenerating, isSending, isProcessingVoice>>
notif == <<message, messageType, timers>>
hist == <<storedResponses, selectedResponse>>
net == <<summarizeCalls, emailCalls, voiceCalls>>
files == <<textReads, savedFile>>
ctlVars == <<fields, flags, notif, hist, now, net, files, generatedFrom,
             lastOp>>
vtVars == <<vtApiKey, vtEnv, vtReq, vtPc, vtUploads, vtSubmits, vtPolls, vtPollLog,
            vtResponse, vtReads, vtOutcomes>>
smVars == <<smApiKey, smEnv, smReq, smPc, smCalls, smOut, smResult, smResponse,
            smReads>>
emVars ==
  <<emApiKey, emEnv, emReq, emPc, emCalls, emOut, emResult, emResponse, emReads>>
gwVars == <<vtVars, smVars, emVars>>
vars == <<ctlVars, gwVars>>

\* lastOp is the handler or continuation that ran in the last step, with the
\* argument it was given (an id, or the content a gateway returned); an
\* edit, a timer or a clock tick resets it
Op(name, arg) == [name |-> name, arg |-> arg]
NoOp == Op("none", <<>>)

\* Removal of the i-th element of a sequence
RemoveAt(s, i) == SubSeq(s, 1, i - 1) \o SubSeq(s, i + 1, Len(s))

Init ==
  /\ transcript = <<>>
  /\ customPrompt = DefaultPrompt
  /\ summary = <<>>
  /\ summaryTitle = <<>>
  /\ emailRecipients = <<>>
  /\ isGenerating = FALSE
  /\ isSending = FALSE
  /\ isProcessingVoice = FALSE
  /\ message = ""
  /\ messageType = "info"
  /\ timers = 0
  /\ storedResponses = <<>>
  /\ selectedResponse = NoSelection
  /\ now = 0
  /\ summarizeCalls = <<>>
  /\ emailCalls = <<>>
  /\ voiceCalls = <<>>
  /\ textReads = <<>>
  /\ savedFile = NoDownload
  /\ generatedFrom = Null
  /\ lastOp = NoOp
  /\ vtApiKey = Null
  /\ vtEnv = Null
  /\ vtReq = NoRequest
  /\ vtPc = "idle"
  /\ vtUploads = 0
  /\ vtSubmits = 0
  /\ vtPolls = 0
  /\ vtPollLog = <<>>
  /\ vtResponse = NoResponse
  /\ vtReads = {}
  /\ vtOutcomes = <<>>
  /\ smApiKey = Null
  /\ smEnv = Null
  /\ smReq = NoRequest
  /\ smPc = "idle"
  /\ smCalls = 0
  /\ smOut = NoChat
  /\ smResult = NoResult
  /\ smResponse = NoResponse
  /\ smReads = {}
  /\ emApiKey = Null
  /\ emEnv = Null
  /\ emReq = NoRequest
  /\ emPc = "idle"
  /\ emCalls = 0
  /\ emOut = NoEmail
  /\ emResult = "none"
  /\ emResponse = NoResponse
  /\ emReads = {}

\* showMessage: the text, its type and one more 5 s timer
showMessage(text, type) ==
  /\ timers < MaxTimers
  /\ message' = text
  /\ messageType' = type
  /\ timers' = timers + 1

\* The callback of a showMessage timer: setMessage('')
TimerFire ==
  /\ timers > 0
  /\ timers' = timers - 1
  /\ message' = ""
  /\ lastOp' = NoOp
  /\ UNCHANGED gwVars
  /\ UNCHANGED generatedFrom
  /\ UNCHANGED files
  /\ UNCHANGED <<fields, flags, messageType, hist, now, net>>

\* The wall clock advances by one millisecond
Tick ==
  /\ now < MaxClock
  /\ now' = now + 1
  /\ lastOp' = NoOp
  /\ UNCHANGED gwVars
  /\ UNCHANGED generatedFrom
  /\ UNCHANGED files
  /\ UNCHANGED <<fields, flags, notif, hist, net>>

\* ------------------------------------------------------------------------
\* Editing the fields
\* ------------------------------------------------------------------------
setTranscript(t) ==
    /\ transcript' = t
    /\ lastOp' = NoOp
    /\ UNCHANGED gwVars
    /\ UNCHANGED generatedFrom
    /\ UNCHANGED files
    /\ UNCHANGED <<customPrompt, summary, summaryTitle, emailRecipients,
                   flags, notif, hist, now, net>>

setCustomPrompt(p) ==
    /\ customPrompt' = p
    /\ lastOp' = NoOp
    /\ UNCHANGED gwVars
    /\ UNCHANGED generatedFrom
    /\ UNCHANGED files
    /\ UNCHANGED <<transcript, summary, summaryTitle, emailRecipients,
                   flags, notif, hist, now, net>>

setSummary(s) ==
    /\ summary' = s
    /\ lastOp' = NoOp
    /\ UNCHANGED gwVars
    /\ UNCHANGED generatedFrom
    /\ UNCHANGED files
    /\ UNCHANGED <<transcript, customPrompt, summaryTitle, emailRecipients,
                   flags, notif, hist, now, net>>

\* An edit of the title that also renames the selected entry of history
setSummaryTitle_renaming(t) ==
    /\ summaryTitle' = t
    /\ storedResponses' =
         [i \in DOMAIN storedResponses |->
            IF storedResponses[i].id = selectedResponse
            THEN [storedResponses[i] EXCEPT !.summary.title = t]
            ELSE storedResponses[i]]
    /\ lastOp' = NoOp
    /\ UNCHANGED gwVars
    /\ UNCHANGED generatedFrom
    /\ UNCHANGED files
    /\ UNCHANGED <<transcript, customPrompt, summary, emailRecipients,
                   flags, notif, selectedResponse, now, net>>

setSummaryTitle(t) ==
    /\ summaryTitle' = t
    /\ lastOp' = NoOp
    /\ UNCHANGED gwVars
    /\ UNCHANGED generatedFrom
    /\ UNCHANGED files
    /\ UNCHANGED <<transcript, customPrompt, summary, emailRecipients,
                   flags, notif, hist, now, net>>

setEmailRecipients(r) ==
    /\ emailRecipients' = r
    /\ lastOp' = NoOp
    /\ UNCHANGED gwVars
    /\ UNCHANGED generatedFrom
    /\ UNCHANGED files
    /\ UNCHANGED <<transcript, customPrompt, summary, summaryTitle,
                   flags, notif, hist, now, net>>

\* ------------------------------------------------------------------------
\* generateSummary
\* ------------------------------------------------------------------------
\* The request without the two trims
SummarizeBody_untrimmed(t, p) == [transcript |-> t, prompt |-> p]

\* The body of the summarize request
SummarizeBody(t, p) == [transcript |-> Trim(t), prompt |-> Trim(p)]

\* The guard testing the transcript itself and not its trim
generateStart_rawGuard(name) ==
  /\ lastOp' = Op(name, <<>>)
  /\ UNCHANGED gwVars
  /\ UNCHANGED generatedFrom
  /\ UNCHANGED files
  /\ IF transcript = <<>>
     THEN /\ showMessage("Please provide a transcript first.", "error")
          /\ UNCHANGED <<fields, flags, hist, now, net>>
     ELSE /\ Len(summarizeCalls) < MaxInFlight
          /\ isGenerating' = TRUE
          /\ message' = ""
          /\ summarizeCalls' =
               Append(summarizeCalls, SummarizeBody(transcript, customPrompt))
          /\ UNCHANGED <<fields, isSending, isProcessingVoice, messageType,
                         timers, hist, now, emailCalls, voiceCalls>>

\* generateSummary up to its await: the guard, then the fetch
generateStart(name) ==
  /\ lastOp' = Op(name, <<>>)
  /\ UNCHANGED gwVars
  /\ UNCHANGED generatedFrom
  /\ UNCHANGED files
  /\ IF Trim(transcript) = <<>>
     THEN /\ showMessage("Please provide a transcript first.", "error")
          /\ UNCHANGED <<fields, flags, hist, now, net>>
     ELSE /\ Len(summarizeCalls) < MaxInFlight
          /\ isGenerating' = TRUE
          /\ message' = ""
          /\ summarizeCalls' =
               Append(summarizeCalls, SummarizeBody(transcript, customPrompt))
          /\ UNCHANGED <<fields, isSending, isProcessingVoice, messageType,
                         timers, hist, now, emailCalls, voiceCalls>>

generateSummary == generateStart("generateSummary")

\* regenerateSummary repeats the guard and calls generateSummary
regenerateSummary == generateStart("regenerateSummary")

\* generateSucceed that drops the summary of a transcript no longer held
generateSucceed_guarded(i, content) ==
    /\ i \in DOMAIN summarizeCalls
    /\ summarizeCalls' = RemoveAt(summarizeCalls, i)
    /\ IF Trim(transcript) = summarizeCalls[i].transcript
       THEN /\ summary' = content
            /\ summaryTitle' = DefaultTitle(now)
            /\ generatedFrom' = summarizeCalls[i].transcript
       ELSE UNCHANGED <<summary, summaryTitle, generatedFrom>>
    /\ showMessage("Summary generated successfully!", "success")
    /\ isGenerating' = FALSE
    /\ lastOp' = Op("generateSucceed", content)
    /\ UNCHANGED gwVars
    /\ UNCHANGED files
    /\ UNCHANGED <<transcript, customPrompt, emailRecipients, isSending,
                   isProcessingVoice, hist, now, emailCalls, voiceCalls>>

\* The summarize call returned 200 {summary}: the rest of the try block,
\* then finally.  generatedFrom keeps the transcript of the request that
\* was answered (history, not a field of the program).
generateSucceed(i, content) ==
    /\ i \in DOMAIN summarizeCalls
    /\ summarizeCalls' = RemoveAt(summarizeCalls, i)
    /\ summary' = content
    /\ summaryTitle' = DefaultTitle(now)
    /\ showMessage("Summary generated successfully!", "success")
    /\ isGenerating' = FALSE
    /\ lastOp' = Op("generateSucceed", content)
    /\ generatedFrom' = summarizeCalls[i].transcript
    /\ UNCHANGED gwVars
    /\ UNCHANGED files
    /\ UNCHANGED <<transcript, customPrompt, emailRecipients, isSending,
                   isProcessingVoice, hist, now, emailCalls, voiceCalls>>

\* A catch block that also resets the summary
generateFail_clearing(i) ==
    /\ i \in DOMAIN summarizeCalls
    /\ summarizeCalls' = RemoveAt(summarizeCalls, i)
    /\ showMessage("Error generating summary. Please try again.", "error")
    /\ isGenerating' = FALSE
    /\ summary' = <<>>
    /\ lastOp' = Op("generateFail", <<>>)
    /\ UNCHANGED gwVars
    /\ UNCHANGED generatedFrom
    /\ UNCHANGED files
    /\ UNCHANGED <<transcript, customPrompt, summaryTitle, emailRecipients,
                   isSending, isProcessingVoice, hist, now,
                   emailCalls, voiceCalls>>

\* The summarize call threw (fetch rejected, or the status was not ok):
\* catch, then finally
generateFail(i) ==
    /\ i \in DOMAIN summarizeCalls
    /\ summarizeCalls' = RemoveAt(summarizeCalls, i)
    /\ showMessage("Error generating summary. Please try again.", "error")
    /\ isGenerating' = FALSE
    /\ lastOp' = Op("generateFail", <<>>)
    /\ UNCHANGED gwVars
    /\ UNCHANGED generatedFrom
    /\ UNCHANGED files
    /\ UNCHANGED <<fields, isSending, isProcessingVoice, hist, now,
                   emailCalls, voiceCalls>>

\* ------------------------------------------------------------------------
\* History: saveSummary, loadStoredResponse, deleteStoredResponse
\* ------------------------------------------------------------------------
\* The entry saveSummary builds.  The handler runs within one reading of the
\* clock: Date.now() and new Date() give the same instant throughout.
NewResponse ==
  [id |-> toString(now),
   summary |-> [id |-> toString(now),
                content |-> summary,
                prompt |-> customPrompt,
                originalTranscript |-> transcript,
                createdAt |-> ISOString(now),
                title |-> IF summaryTitle # <<>> THEN summaryTitle
                          ELSE DefaultTitle(now)],
   timestamp |-> ISOString(now)]

\* saveSummary that puts the new entry behind the others
saveSummary_appending ==
  /\ lastOp' = Op("saveSummary", <<>>)
  /\ UNCHANGED gwVars
  /\ UNCHANGED generatedFrom
  /\ UNCHANGED files
  /\ IF Trim(summary) = <<>>
     THEN /\ showMessage("No summary to save.", "error")
          /\ UNCHANGED <<fields, flags, hist, now, net>>
     ELSE /\ Len(storedResponses) < MaxHistory
          /\ storedResponses' = storedResponses \o <<NewResponse>>
          /\ showMessage("Summary saved successfully!", "success")
          /\ UNCHANGED <<fields, flags, selectedResponse, now, net>>

saveSummary ==
  /\ lastOp' = Op("saveSummary", <<>>)
  /\ UNCHANGED gwVars
  /\ UNCHANGED generatedFrom
  /\ UNCHANGED files
  /\ IF Trim(summary) = <<>>
     THEN /\ showMessage("No summary to save.", "error")
          /\ UNCHANGED <<fields, flags, hist, now, net>>
     ELSE /\ Len(storedResponses) < MaxHistory
          /\ storedResponses' = <<NewResponse>> \o storedResponses
          /\ showMessage("Summary saved successfully!", "success")
          /\ UNCHANGED <<fields, flags, selectedResponse, now, net>>

\* Array.prototype.find(r => r.id === responseId): the first match, if any
Find(responses, responseId) ==
  IF \E i \in DOMAIN responses : responses[i].id = responseId
  THEN LET i == CHOOSE k \in DOMAIN responses :
                  /\ responses[k].id = responseId
                  /\ \A j \in 1..(k - 1) : responses[j].id # responseId
       IN  <<responses[i]>>
  ELSE <<>>

\* The selection set outside the test of the find
loadStoredResponse_selecting(responseId) ==
    /\ lastOp' = Op("loadStoredResponse", responseId)
    /\ UNCHANGED gwVars
    /\ UNCHANGED generatedFrom
    /\ UNCHANGED files
    /\ selectedResponse' = responseId
    /\ LET found == Find(storedResponses, responseId)
       IN  IF found # <<>>
           THEN /\ summary' = found[1].summary.content
                /\ customPrompt' = found[1].summary.prompt
                /\ transcript' = found[1].summary.originalTranscript
                /\ summaryTitle' = found[1].summary.title
                /\ showMessage("Summary loaded successfully!", "success")
                /\ UNCHANGED <<emailRecipients, flags, storedResponses,
                               now, net>>
           ELSE UNCHANGED <<fields, flags, notif, storedResponses, now, net>>

loadStoredResponse(responseId) ==
    /\ lastOp' = Op("loadStoredResponse", responseId)
    /\ UNCHANGED gwVars
    /\ UNCHANGED generatedFrom
    /\ UNCHANGED files
    /\ LET found == Find(storedResponses, responseId)
       IN  IF found # <<>>
           THEN /\ summary' = found[1].summary.content
                /\ customPrompt' = found[1].summary.prompt
                /\ transcript' = found[1].summary.originalTranscript
                /\ summaryTitle' = found[1].summary.title
                /\ selectedResponse' = responseId
                /\ showMessage("Summary loaded successfully!", "success")
                /\ UNCHANGED <<emailRecipients, flags, storedResponses,
                               now, net>>
           ELSE UNCHANGED <<fields, flags, notif, hist, now, net>>

\* Array.prototype.filter(r => r.id !== responseId)
FilterOut(responses, responseId) ==
  LET keep(r) == r.id # responseId IN SelectSeq(responses, keep)

\* deleteStoredResponse that leaves the selection as it is
deleteStoredResponse_keepingSelection(responseId) ==
    /\ lastOp' = Op("deleteStoredResponse", responseId)
    /\ UNCHANGED gwVars
    /\ UNCHANGED generatedFrom
    /\ UNCHANGED files
    /\ storedResponses' = FilterOut(storedResponses, responseId)
    /\ showMessage("Summary deleted successfully!", "success")
    /\ UNCHANGED <<fields, flags, selectedResponse, now, net>>

deleteStoredResponse(responseId) ==
    /\ lastOp' = Op("deleteStoredResponse", responseId)
    /\ UNCHANGED gwVars
    /\ UNCHANGED generatedFrom
    /\ UNCHANGED files
    /\ storedResponses' = FilterOut(storedResponses, responseId)
    /\ selectedResponse' =
         IF selectedResponse = responseId THEN NoSelection
         ELSE selectedResponse
    /\ showMessage("Summary deleted successfully!", "success")
    /\ UNCHANGED <<fields, flags, now, net>>

\* ------------------------------------------------------------------------
\* sendEmail
\* ------------------------------------------------------------------------
\* A body that quotes the transcript after the prompt
EmailPayload_withTranscript(tr, pr, su, ti, re) ==
  [recipients |-> MapTrim(Split(re, ",")),
   summary |-> Trim(su),
   originalPrompt |-> Trim(pr \o tr),
   title |-> ti]

\* The body of the send-email request, as a function of the five fields the
\* controller holds: transcript, prompt, summary, title, recipients string
EmailPayload(tr, pr, su, ti, re) ==
  [recipients |-> MapTrim(Split(re, ",")),
   summary |-> Trim(su),
   originalPrompt |-> Trim(pr),
   title |-> ti]

\* The body of the send-email request
EmailBody ==
  EmailPayload(transcript, customPrompt, summary, summaryTitle,
               emailRecipients)

\* sendEmail whose guards test the fields as they are held
sendEmail_rawGuards ==
  /\ lastOp' = Op("sendEmail", <<>>)
  /\ UNCHANGED gwVars
  /\ UNCHANGED generatedFrom
  /\ UNCHANGED files
  /\ IF summary = <<>>
     THEN /\ showMessage("Please generate a summary first.", "error")
          /\ UNCHANGED <<fields, flags, hist, now, net>>
     ELSE IF emailRecipients = <<>>
     THEN /\ showMessage("Please enter at least one email recipient.",
                         "error")
          /\ UNCHANGED <<fields, flags, hist, now, net>>
     ELSE /\ Len(emailCalls) < MaxInFlight
          /\ isSending' = TRUE
          /\ emailCalls' = Append(emailCalls, EmailBody)
          /\ UNCHANGED <<fields, isGenerating, isProcessingVoice, notif,
                         hist, now, summarizeCalls, voiceCalls>>

\* sendEmail up to its await: the two guards, then the fetch
sendEmail ==
  /\ lastOp' = Op("sendEmail", <<>>)
  /\ UNCHANGED gwVars
  /\ UNCHANGED generatedFrom
  /\ UNCHANGED files
  /\ IF Trim(summary) = <<>>
     THEN /\ showMessage("Please generate a summary first.", "error")
          /\ UNCHANGED <<fields, flags, hist, now, net>>
     ELSE IF Trim(emailRecipients) = <<>>
     THEN /\ showMessage("Please enter at least one email recipient.",
                         "error")
          /\ UNCHANGED <<fields, flags, hist, now, net>>
     ELSE /\ Len(emailCalls) < MaxInFlight
          /\ isSending' = TRUE
          /\ emailCalls' = Append(emailCalls, EmailBody)
          /\ UNCHANGED <<fields, isGenerating, isProcessingVoice, notif,
                         hist, now, summarizeCalls, voiceCalls>>

\* The send-email call returned a success status
sendSucceed(i) ==
    /\ i \in DOMAIN emailCalls
    /\ emailCalls' = RemoveAt(emailCalls, i)
    /\ showMessage("Summary sent successfully!", "success")
    /\ emailRecipients' = <<>>
    /\ isSending' = FALSE
    /\ lastOp' = Op("sendSucceed", <<>>)
    /\ UNCHANGED gwVars
    /\ UNCHANGED generatedFrom
    /\ UNCHANGED files
    /\ UNCHANGED <<transcript, customPrompt, summary, summaryTitle,
                   isGenerating, isProcessingVoice, hist, now,
                   summarizeCalls, voiceCalls>>

\* A catch block that also clears the recipients
sendFail_clearing(i) ==
    /\ i \in DOMAIN emailCalls
    /\ emailCalls' = RemoveAt(emailCalls, i)
    /\ showMessage("Error sending email. Please try again.", "error")
    /\ isSending' = FALSE
    /\ emailRecipients' = <<>>
    /\ lastOp' = Op("sendFail", <<>>)
    /\ UNCHANGED gwVars
    /\ UNCHANGED generatedFrom
    /\ UNCHANGED files
    /\ UNCHANGED <<transcript, customPrompt, summary, summaryTitle,
                   isGenerating, isProcessingVoice, hist, now,
                   summarizeCalls, voiceCalls>>

\* The send-email call threw
sendFail(i) ==
    /\ i \in DOMAIN emailCalls
    /\ emailCalls' = RemoveAt(emailCalls, i)
    /\ showMessage("Error sending email. Please try again.", "error")
    /\ isSending' = FALSE
    /\ lastOp' = Op("sendFail", <<>>)
    /\ UNCHANGED gwVars
    /\ UNCHANGED generatedFrom
    /\ UNCHANGED files
    /\ UNCHANGED <<fields, isGenerating, isProcessingVoice, hist, now,
                   summarizeCalls, voiceCalls>>

\* ------------------------------------------------------------------------
\* Specifications of the controller
\* ------------------------------------------------------------------------
\* Generation
Next ==
  \/ TimerFire
  \/ Tick
  \/ \E t \in TranscriptInputs : setTranscript(t)
  \/ \E p \in PromptInputs : setCustomPrompt(p)
  \/ \E s \in SummaryInputs : setSummary(s)
  \/ generateSummary
  \/ regenerateSummary
  \/ \E i \in 1..MaxInFlight, content \in SummaryContents :
       generateSucceed(i, content)
  \/ \E i \in 1..MaxInFlight : generateFail(i)

Spec == Init /\ [][Next]_vars

\* Generation over a history: what a failed generation must preserve
NextRecover ==
  \/ TimerFire
  \/ Tick
  \/ setTranscript(<<"b">>)
  \/ generateSummary
  \/ \E i \in 1..MaxInFlight : generateSucceed(i, <<"s">>)
  \/ \E i \in 1..MaxInFlight : generateFail(i)
  \/ saveSummary
  \/ \E id \in Ids : loadStoredResponse(id)

SpecRecover == Init /\ [][NextRecover]_vars

\* History
NextHistory ==
  \/ TimerFire
  \/ Tick
  \/ \E s \in SummaryInputs : setSummary(s)
  \/ saveSummary
  \/ \E id \in Ids : loadStoredResponse(id)
  \/ \E id \in Ids : deleteStoredResponse(id)

SpecHistory == Init /\ [][NextHistory]_vars

\* Saving and loading summaries that differ
NextLoad ==
  \/ TimerFire
  \/ Tick
  \/ \E s \in {<<"e">>, <<"f">>} : setSummary(s)
  \/ saveSummary
  \/ \E id \in Ids : loadStoredResponse(id)

SpecLoad == Init /\ [][NextLoad]_vars

\* Stored entries under every kind of later edit
NextKeep ==
  \/ TimerFire
  \/ setTranscript(<<"b">>)
  \/ setCustomPrompt(<<"p", " ">>)
  \/ setSummary(<<"e">>)
  \/ setSummaryTitle(<<"T", "!">>)
  \/ generateSummary
  \/ \E i \in 1..MaxInFlight : generateSucceed(i, <<"e">>)
  \/ saveSummary
  \/ loadStoredResponse(toString(0))
  \/ deleteStoredResponse(toString(0))

SpecKeep == Init /\ [][NextKeep]_vars

\* Email
NextEmail ==
  \/ TimerFire
  \/ setTranscript(<<"b">>)
  \/ setSummary(<<"e", " ">>)
  \/ setSummaryTitle(<<"T", "!">>)
  \/ \E r \in RecipientInputs : setEmailRecipients(r)
  \/ sendEmail
  \/ \E i \in 1..MaxInFlight : sendSucceed(i)
  \/ \E i \in 1..MaxInFlight : sendFail(i)

SpecEmail == Init /\ [][NextEmail]_vars

\* ------------------------------------------------------------------------
\* handleFileUpload
\* ------------------------------------------------------------------------
\* A file picked in one of the two file inputs: its name and, for a text
\* file, what readAsText gives; NoUpload when the picker was dismissed
UploadFiles == {[name |-> <<"m">>, text |-> <<"x", " ">>]}
NoUpload == [name |-> Null, text |-> <<>>]

\* handleFileUpload up to the end of its synchronous part: nothing without
\* a file; a text file starts a FileReader; a voice file sets the busy flag
\* and posts the file to voice-to-text
handleFileUpload(file, type) ==
  /\ lastOp' = Op("handleFileUpload", <<>>)
  /\ UNCHANGED gwVars
  /\ UNCHANGED generatedFrom
  /\ UNCHANGED <<fields, notif, hist, now, isGenerating, isSending,
                 summarizeCalls, emailCalls, savedFile>>
  /\ IF file = NoUpload
     THEN UNCHANGED <<isProcessingVoice, voiceCalls, textReads>>
     ELSE IF type = "text"
     THEN /\ Len(textReads) < MaxUploads
          /\ textReads' = Append(textReads, file)
          /\ UNCHANGED <<isProcessingVoice, voiceCalls>>
     ELSE /\ Len(voiceCalls) < MaxUploads
          /\ isProcessingVoice' = TRUE
          /\ voiceCalls' = Append(voiceCalls, file)
          /\ UNCHANGED textReads

\* reader.onload of a text file
textLoaded(i) ==
  /\ i \in DOMAIN textReads
  /\ textReads' = RemoveAt(textReads, i)
  /\ transcript' = textReads[i].text
  /\ showMessage("Text file uploaded successfully!", "success")
  /\ lastOp' = Op("textLoaded", <<>>)
  /\ UNCHANGED gwVars
  /\ UNCHANGED generatedFrom
  /\ UNCHANGED <<customPrompt, summary, summaryTitle, emailRecipients, flags,
                 hist, now, net, savedFile>>

\* The voice-to-text call returned 200 {transcription}: the rest of the try
\* block, then finally
voiceSucceed(i, transcription) ==
  /\ i \in DOMAIN voiceCalls
  /\ voiceCalls' = RemoveAt(voiceCalls, i)
  /\ transcript' = transcription
  /\ showMessage("Voice file processed successfully!", "success")
  /\ isProcessingVoice' = FALSE
  /\ lastOp' = Op("voiceSucceed", transcription)
  /\ UNCHANGED gwVars
  /\ UNCHANGED generatedFrom
  /\ UNCHANGED files
  /\ UNCHANGED <<customPrompt, summary, summaryTitle, emailRecipients,
                 isGenerating, isSending, hist, now, summarizeCalls,
                 emailCalls>>

\* A catch block that also empties the transcript
voiceFail_clearing(i) ==
  /\ i \in DOMAIN voiceCalls
  /\ voiceCalls' = RemoveAt(voiceCalls, i)
  /\ showMessage("Error processing voice file. Please try again.", "error")
  /\ isProcessingVoice' = FALSE
  /\ transcript' = <<>>
  /\ lastOp' = Op("voiceFail", <<>>)
  /\ UNCHANGED gwVars
  /\ UNCHANGED generatedFrom
  /\ UNCHANGED files
  /\ UNCHANGED <<customPrompt, summary, summaryTitle, emailRecipients,
                 isGenerating, isSending, hist, now, summarizeCalls,
                 emailCalls>>

\* The voice-to-text call failed (a status other than 2xx, or a rejected
\* fetch): catch, then finally
voiceFail(i) ==
  /\ i \in DOMAIN voiceCalls
  /\ voiceCalls' = RemoveAt(voiceCalls, i)
  /\ showMessage("Error processing voice file. Please try again.", "error")
  /\ isProcessingVoice' = FALSE
  /\ lastOp' = Op("voiceFail", <<>>)
  /\ UNCHANGED gwVars
  /\ UNCHANGED generatedFrom
  /\ UNCHANGED files
  /\ UNCHANGED <<fields, isGenerating, isSending, hist, now, summarizeCalls,
                 emailCalls>>

NextUpload ==
  \/ TimerFire
  \/ setTranscript(<<"b">>)
  \/ setSummary(<<"e">>)
  \/ saveSummary
  \/ \E f \in UploadFiles \cup {NoUpload}, type \in {"text", "voice"} :
       handleFileUpload(f, type)
  \/ \E i \in 1..MaxUploads : textLoaded(i)
  \/ \E i \in 1..MaxUploads, t \in Transcriptions : voiceSucceed(i, t)
  \/ \E i \in 1..MaxUploads : voiceFail(i)

SpecUpload == Init /\ [][NextUpload]_vars

\* A voice upload and a generation side by side
NextRace ==
  \/ TimerFire
  \/ setTranscript(<<"b">>)
  \/ generateSummary
  \/ \E i \in 1..MaxInFlight : generateSucceed(i, <<"s">>)
  \/ \E i \in 1..MaxInFlight : generateFail(i)
  \/ \E f \in UploadFiles : handleFileUpload(f, "voice")
  \/ \E i \in 1..MaxUploads, t \in Transcriptions : voiceSucceed(i, t)
  \/ \E i \in 1..MaxUploads : voiceFail(i)
  \/ saveSummary

SpecRace == Init /\ [][NextRace]_vars

\* ------------------------------------------------------------------------
\* downloadSummary
\* ------------------------------------------------------------------------
LowerCase ==
  <<"a", "b", "c", "d", "e", "f", "g", "h", "i", "j", "k", "l", "m", "n", "o",
    "p", "q", "r", "s", "t", "u", "v", "w", "x", "y", "z">>
UpperCase ==
  <<"A", "B", "C", "D", "E", "F", "G", "H", "I", "J", "K", "L", "M", "N", "O",
    "P", "Q", "R", "S", "T", "U", "V", "W", "X", "Y", "Z">>

\* String.prototype.repeat for a one-character string
RECURSIVE Repeat(_, _)
Repeat(c, n) == IF n = 0 THEN <<>> ELSE <<c>> \o Repeat(c, n - 1)

\* replace(/[^a-z0-9]/gi, '_').toLowerCase() of one character
FileNameChar(c) ==
  IF \E i \in 1..26 : LowerCase[i] = c THEN c
  ELSE IF \E i \in 1..26 : UpperCase[i] = c
  THEN LowerCase[CHOOSE i \in 1..26 : UpperCase[i] = c]
  ELSE IF \E i \in 1..10 : Digits[i] = c THEN c
  ELSE "_"

\* The name the file is saved under
FileName(title) ==
  [i \in 1..Len(title) |-> FileNameChar(title[i])] \o <<".", "t", "x", "t">>

\* Date.prototype.toLocaleString: the calendar day and the time of day
LocaleString(t) ==
  LocaleDateString(t) \o <<",", " ">> \o toString(t % TicksPerDay)

\* The text of the file, from its template literal
DownloadContent ==
  summaryTitle \o <<"\n">> \o Repeat("=", Len(summaryTitle)) \o <<"\n", "\n">>
    \o <<"G", "e", "n", "e", "r", "a", "t", "e", "d", ":", " ">>
    \o LocaleString(now) \o <<"\n">>
    \o <<"P", "r", "o", "m", "p", "t", ":", " ">> \o customPrompt
    \o <<"\n", "\n">> \o summary

\* downloadSummary whose guard tests the summary as it is held
downloadSummary_rawGuard ==
  /\ lastOp' = Op("downloadSummary", <<>>)
  /\ UNCHANGED gwVars
  /\ UNCHANGED generatedFrom
  /\ UNCHANGED <<fields, flags, hist, now, net, textReads>>
  /\ IF summary = <<>>
     THEN /\ showMessage("No summary to download.", "error")
          /\ UNCHANGED savedFile
     ELSE /\ savedFile' = [name |-> FileName(summaryTitle),
                           content |-> DownloadContent]
          /\ showMessage("Summary downloaded successfully!", "success")

\* downloadSummary: the guard, then the file given to saveAs
downloadSummary ==
  /\ lastOp' = Op("downloadSummary", <<>>)
  /\ UNCHANGED gwVars
  /\ UNCHANGED generatedFrom
  /\ UNCHANGED <<fields, flags, hist, now, net, textReads>>
  /\ IF Trim(summary) = <<>>
     THEN /\ showMessage("No summary to download.", "error")
          /\ UNCHANGED savedFile
     ELSE /\ savedFile' = [name |-> FileName(summaryTitle),
                           content |-> DownloadContent]
          /\ showMessage("Summary downloaded successfully!", "success")

DownloadSummaries == {<<>>, <<" ">>, <<"e", "\n", "f">>}

NextDownload ==
  \/ TimerFire
  \/ Tick
  \/ \E s \in DownloadSummaries : setSummary(s)
  \/ \E t \in TitleInputs : setSummaryTitle(t)
  \/ setCustomPrompt(<<"p", " ">>)
  \/ downloadSummary

SpecDownload == Init /\ [][NextDownload]_vars

\* ------------------------------------------------------------------------
\* Transcription Gateway, asynchronous provider (voice-to-text, AssemblyAI)
\* ------------------------------------------------------------------------
\* One request, from its arrival to its response.  vtPc is the await the
\* handler is suspended at; vtUploads, vtSubmits and vtPolls count the
\* outbound calls issued; vtPollLog is what the polls returned so far.
Methods == {"OPTIONS", "GET", "POST"}
AudioFiles == {[name |-> <<"m">>, size |-> 1]}
\* formData.get("audio") of a form without that field
NoFile == [name |-> Null, size |-> 0]
\* A request: its method, whether its body parses as form data, the audio
\* field of the form
Requests == [method : Methods, form : BOOLEAN, audio : AudioFiles \cup {NoFile}]
ApiKeys == {Null, <<"k">>}

JobStatuses == {"queued", "processing", "completed", "error"}
Texts == {Null, <<>>, <<" ">>, <<"h", "i">>, <<" ", "h", "i", "\n">>}

\* What a poll can come back with: the fetch throws, the body is not JSON,
\* or a body with the job's status and text under either kind of HTTP status
PollResults ==
  {[kind |-> k, ok |-> FALSE, status |-> "none", text |-> Null] :
     k \in {"throw", "badjson"}}
  \cup {[kind |-> "json", ok |-> o, status |-> st, text |-> Null] :
          o \in BOOLEAN, st \in (JobStatuses \ {"completed"}) \cup {"none"}}
  \cup {[kind |-> "json", ok |-> o, status |-> "completed", text |-> t] :
          o \in BOOLEAN, t \in Texts}

\* new Response(body, {status})
Response(status, body) == [status |-> status, body |-> body]

InternalError == Response(500, "Internal server error")

vtRespond(r) ==
  /\ vtResponse' = r
  /\ vtPc' = "done"

\* The handler from the arrival of the request to its first await of an
\* outbound call (or to its response).  key is what Deno.env.get gives; it
\* is read only once the audio file has been found.
vtServe(req, key) ==
  /\ vtPc = "idle"
  /\ vtReq' = req
  /\ vtEnv' = key
  /\ UNCHANGED <<vtOutcomes, vtSubmits, vtPolls, vtPollLog, ctlVars, smVars,
                 emVars>>
  /\ vtApiKey' = IF req.method = "POST" /\ req.form /\ req.audio # NoFile
                 THEN key ELSE vtApiKey
  /\ vtReads' = IF req.method # "POST" THEN {}
                ELSE IF req.form /\ req.audio # NoFile THEN {"body", "key"}
                ELSE {"body"}
  /\ IF req.method = "OPTIONS"
     THEN vtRespond(Response(200, "")) /\ UNCHANGED vtUploads
     ELSE IF req.method # "POST"
     THEN vtRespond(Response(405, "Method not allowed"))
          /\ UNCHANGED vtUploads
     ELSE IF ~req.form
     THEN vtRespond(InternalError) /\ UNCHANGED vtUploads
     ELSE IF req.audio = NoFile
     THEN vtRespond(Response(400, "No audio file provided"))
          /\ UNCHANGED vtUploads
     ELSE IF key = Null
     THEN vtRespond(Response(500, "Speech-to-text service not configured"))
          /\ UNCHANGED vtUploads
     ELSE /\ vtUploads' = vtUploads + 1
          /\ vtPc' = "upload"
          /\ UNCHANGED vtResponse

\* vtUploadReturn that submits the job whatever status the upload had
vtUploadReturn_ignoringStatus(outcome) ==
  /\ vtPc = "upload"
  /\ vtOutcomes' = Append(vtOutcomes, outcome)
  /\ UNCHANGED <<vtReads, vtApiKey, vtEnv, vtReq, vtUploads, vtPolls, vtPollLog,
                 ctlVars, smVars, emVars>>
  /\ IF outcome \in {"ok", "notok"}
     THEN /\ vtSubmits' = vtSubmits + 1
          /\ vtPc' = "submit"
          /\ UNCHANGED vtResponse
     ELSE /\ vtRespond(InternalError)
          /\ UNCHANGED vtSubmits

\* The upload call settles: "ok", "notok" (a non-success status) or "throw"
\* (the fetch rejects, or the body of a success is not JSON); vtOutcomes
\* keeps how the upload and the submission settled
vtUploadReturn(outcome) ==
  /\ vtPc = "upload"
  /\ vtOutcomes' = Append(vtOutcomes, outcome)
  /\ UNCHANGED <<vtReads, vtApiKey, vtEnv, vtReq, vtUploads, vtPolls, vtPollLog,
                 ctlVars, smVars, emVars>>
  /\ IF outcome = "ok"
     THEN /\ vtSubmits' = vtSubmits + 1
          /\ vtPc' = "submit"
          /\ UNCHANGED vtResponse
     ELSE /\ vtRespond(IF outcome = "notok"
                       THEN Response(500,
                                     "Failed to upload audio to AssemblyAI")
                       ELSE InternalError)
          /\ UNCHANGED vtSubmits

\* The job submission settles; on success the handler enters the do-while
\* loop and sleeps
vtSubmitReturn(outcome) ==
  /\ vtPc = "submit"
  /\ vtOutcomes' = Append(vtOutcomes, outcome)
  /\ UNCHANGED <<vtReads, vtApiKey, vtEnv, vtReq, vtUploads, vtSubmits, vtPolls,
                 vtPollLog, ctlVars, smVars, emVars>>
  /\ IF outcome = "ok"
     THEN /\ vtPc' = "sleep"
          /\ UNCHANGED vtResponse
     ELSE vtRespond(IF outcome = "notok"
                    THEN Response(500, "Failed to transcribe audio")
                    ELSE InternalError)

\* The 2 s timer of the loop elapses: the poll is issued
vtSleepDone ==
  /\ vtPc = "sleep"
  /\ vtPolls < MaxPolls
  /\ vtPolls' = vtPolls + 1
  /\ vtPc' = "poll"
  /\ UNCHANGED <<vtOutcomes, vtReads, vtApiKey, vtEnv, vtReq, vtUploads, vtSubmits,
                 vtPollLog,
                 vtResponse, ctlVars, smVars, emVars>>

\* A loop that does not stop at a completed job
vtContinue_pastCompleted(r) ==
  r.ok /\ r.status # "error"

\* A loop that does not stop at a failed job
vtContinue_pastError(r) ==
  r.ok /\ r.status # "completed"

\* A loop with an attempt cap
vtContinue_capped(r) ==
  r.ok /\ r.status # "completed" /\ r.status # "error" /\ vtPolls < 2

\* The condition of the do-while loop
vtContinue(r) ==
  r.ok /\ r.status # "completed" /\ r.status # "error"

\* The code after the loop: the response for the last poll result
vtFinish(req, r) ==
  IF r.status = "error"
  THEN Response(500, "Transcription failed on AssemblyAI side")
  ELSE IF r.text = Null \/ r.text = <<>>
  THEN Response(500, "No transcription generated")
  ELSE Response(200, [transcription |-> Trim(r.text),
                      filename |-> req.audio.name,
                      size |-> req.audio.size])

\* The poll settles
vtPollReturn(r) ==
  /\ vtPc = "poll"
  /\ vtPollLog' = Append(vtPollLog, r)
  /\ UNCHANGED <<vtOutcomes, vtReads, vtApiKey, vtEnv, vtReq, vtUploads, vtSubmits,
                 vtPolls,
                 ctlVars, smVars, emVars>>
  /\ IF r.kind # "json"
     THEN vtRespond(InternalError)
     ELSE IF vtContinue(r)
     THEN vtPc' = "sleep" /\ UNCHANGED vtResponse
     ELSE vtRespond(vtFinish(vtReq, r))

Outcomes == {"ok", "notok", "throw"}

NextVoiceGateway ==
  \/ \E req \in Requests, key \in ApiKeys : vtServe(req, key)
  \/ \E o \in Outcomes : vtUploadReturn(o)
  \/ \E o \in Outcomes : vtSubmitReturn(o)
  \/ vtSleepDone
  \/ \E r \in PollResults : vtPollReturn(r)

SpecVoiceGateway == Init /\ [][NextVoiceGateway]_vars

\* ------------------------------------------------------------------------
\* The Summarization Gateway (supabase/functions/summarize), one request
\* ------------------------------------------------------------------------
\* smReq is the request being served, smPc where the handler is suspended,
\* smCalls the number of provider calls issued, smOut the last chat
\* completion requested, smReads what the handler read so far ("body" for
\* req.json(), "key" for Deno.env.get), smApiKey the key it read, smEnv the
\* key the environment of the function holds.

\* A test that takes only an absent value for falsy
Falsy_absentOnly(v) == v = Null

\* JavaScript's !v for the values a JSON field can take here: absent (or
\* null) and the empty string are falsy
Falsy(v) == v = Null \/ v = <<>>

\* A request: its method, whether its body parses as JSON, and the
\* transcript and prompt fields of the body (Null when absent)
SummarizeRequests ==
  [method : Methods, json : BOOLEAN,
   transcript : {Null, <<>>, <<"a">>, <<" ">>},
   prompt : {Null, <<>>, <<"p">>}]

SystemMessage ==
  "You are a professional meeting notes summarizer. Create clear, well-structured summaries based on the user's specific instructions."

\* The content of the user message, from its template literal
UserContent(transcript_, prompt_) ==
  <<"Please process this meeting transcript according to the following instructions: ", "\"">>
    \o prompt_ \o <<"\"", "\n", "\n", "Transcript:", "\n">> \o transcript_

ChatRequest(transcript_, prompt_) ==
  [system |-> SystemMessage, user |-> UserContent(transcript_, prompt_)]

smRespond(r) ==
  /\ smResponse' = r
  /\ smPc' = "done"

\* smServe whose method screen lets every method but OPTIONS through
smServe_anyMethod(req, key) ==
  /\ smPc = "idle"
  /\ smReq' = req
  /\ smEnv' = key
  /\ UNCHANGED <<smResult, ctlVars, vtVars, emVars>>
  /\ IF req.method = "OPTIONS"
     THEN /\ smRespond(Response(200, ""))
          /\ UNCHANGED <<smReads, smApiKey, smCalls, smOut>>
     ELSE IF ~req.json
     THEN /\ smRespond(InternalError)
          /\ smReads' = {"body"}
          /\ UNCHANGED <<smApiKey, smCalls, smOut>>
     ELSE IF Falsy(req.transcript) \/ Falsy(req.prompt)
     THEN /\ smRespond(Response(400, "Missing transcript or prompt"))
          /\ smReads' = {"body"}
          /\ UNCHANGED <<smApiKey, smCalls, smOut>>
     ELSE IF key = Null
     THEN /\ smRespond(Response(500, "AI service not configured"))
          /\ smReads' = {"body", "key"}
          /\ smApiKey' = key
          /\ UNCHANGED <<smCalls, smOut>>
     ELSE /\ smReads' = {"body", "key"}
          /\ smApiKey' = key
          /\ smCalls' = smCalls + 1
          /\ smOut' = ChatRequest(req.transcript, req.prompt)
          /\ smPc' = "fetch"
          /\ UNCHANGED smResponse

\* smServe that looks the key up, and answers for its absence, before it
\* reads the body
smServe_keyFirst(req, key) ==
  /\ smPc = "idle"
  /\ smReq' = req
  /\ smEnv' = key
  /\ UNCHANGED <<smResult, ctlVars, vtVars, emVars>>
  /\ IF req.method = "OPTIONS"
     THEN /\ smRespond(Response(200, ""))
          /\ UNCHANGED <<smReads, smApiKey, smCalls, smOut>>
     ELSE IF req.method # "POST"
     THEN /\ smRespond(Response(405, "Method not allowed"))
          /\ UNCHANGED <<smReads, smApiKey, smCalls, smOut>>
     ELSE IF key = Null
     THEN /\ smRespond(Response(500, "AI service not configured"))
          /\ smReads' = {"key"}
          /\ smApiKey' = key
          /\ UNCHANGED <<smCalls, smOut>>
     ELSE IF ~req.json
     THEN /\ smRespond(InternalError)
          /\ smReads' = {"body", "key"}
          /\ smApiKey' = key
          /\ UNCHANGED <<smCalls, smOut>>
     ELSE IF Falsy(req.transcript) \/ Falsy(req.prompt)
     THEN /\ smRespond(Response(400, "Missing transcript or prompt"))
          /\ smReads' = {"body", "key"}
          /\ smApiKey' = key
          /\ UNCHANGED <<smCalls, smOut>>
     ELSE /\ smReads' = {"body", "key"}
          /\ smApiKey' = key
          /\ smCalls' = smCalls + 1
          /\ smOut' = ChatRequest(req.transcript, req.prompt)
          /\ smPc' = "fetch"
          /\ UNCHANGED smResponse

\* The handler from the arrival of the request to the await of the provider
\* call (or to its response)
smServe(req, key) ==
  /\ smPc = "idle"
  /\ smReq' = req
  /\ smEnv' = key
  /\ UNCHANGED <<smResult, ctlVars, vtVars, emVars>>
  /\ IF req.method = "OPTIONS"
     THEN /\ smRespond(Response(200, ""))
          /\ UNCHANGED <<smReads, smApiKey, smCalls, smOut>>
     ELSE IF req.method # "POST"
     THEN /\ smRespond(Response(405, "Method not allowed"))
          /\ UNCHANGED <<smReads, smApiKey, smCalls, smOut>>
     ELSE IF ~req.json
     THEN /\ smRespond(InternalError)
          /\ smReads' = {"body"}
          /\ UNCHANGED <<smApiKey, smCalls, smOut>>
     ELSE IF Falsy(req.transcript) \/ Falsy(req.prompt)
     THEN /\ smRespond(Response(400, "Missing transcript or prompt"))
          /\ smReads' = {"body"}
          /\ UNCHANGED <<smApiKey, smCalls, smOut>>
     ELSE IF key = Null
     THEN /\ smRespond(Response(500, "AI service not configured"))
          /\ smReads' = {"body", "key"}
          /\ smApiKey' = key
          /\ UNCHANGED <<smCalls, smOut>>
     ELSE /\ smReads' = {"body", "key"}
          /\ smApiKey' = key
          /\ smCalls' = smCalls + 1
          /\ smOut' = ChatRequest(req.transcript, req.prompt)
          /\ smPc' = "fetch"
          /\ UNCHANGED smResponse

\* What the provider call can come back with: the fetch throws, a
\* non-success status, a success whose body is not JSON or has no choices
\* array, or a body whose choices[0]?.message?.content is content (Null when
\* the array is empty or the first choice has no message or no content)
Contents == {Null, <<>>, <<" ">>, <<"s">>}
ChatResults ==
  [kind : {"throw", "notok", "badjson", "nochoices"}, content : {Null}]
    \cup [kind : {"json"}, content : Contents]

\* smFetchReturn that returns whatever content it extracted
smFetchReturn_noEmptyCheck(r) ==
  /\ smPc = "fetch"
  /\ smResult' = r
  /\ UNCHANGED <<smReads, smApiKey, smEnv, smReq, smCalls, smOut, ctlVars, vtVars,
                 emVars>>
  /\ IF r.kind = "throw"
     THEN smRespond(InternalError)
     ELSE IF r.kind = "notok"
     THEN smRespond(Response(500, "Failed to generate summary"))
     ELSE IF r.kind \in {"badjson", "nochoices"}
     THEN smRespond(InternalError)
     ELSE smRespond([status |-> 200, body |-> "summary", summary |-> r.content])

\* smFetchReturn that calls the provider once more after a non-success
\* status
smFetchReturn_retrying(r) ==
  /\ smPc = "fetch"
  /\ smResult' = r
  /\ UNCHANGED <<smReads, smApiKey, smEnv, smReq, smOut, ctlVars, vtVars, emVars>>
  /\ IF r.kind = "notok" /\ smCalls < 2
     THEN smCalls' = smCalls + 1 /\ UNCHANGED <<smPc, smResponse>>
     ELSE /\ UNCHANGED smCalls
          /\ IF r.kind \in {"throw", "badjson", "nochoices"}
             THEN smRespond(InternalError)
             ELSE IF r.kind = "notok"
             THEN smRespond(Response(500, "Failed to generate summary"))
             ELSE IF Falsy(r.content)
             THEN smRespond(Response(500, "No summary generated"))
             ELSE smRespond([status |-> 200, body |-> "summary",
                             summary |-> r.content])

\* The provider call settles and the handler runs to its response;
\* smResult keeps what the call came back with
smFetchReturn(r) ==
  /\ smPc = "fetch"
  /\ smResult' = r
  /\ UNCHANGED <<smReads, smApiKey, smEnv, smReq, smCalls, smOut, ctlVars, vtVars,
                 emVars>>
  /\ IF r.kind = "throw"
     THEN smRespond(InternalError)
     ELSE IF r.kind = "notok"
     THEN smRespond(Response(500, "Failed to generate summary"))
     ELSE IF r.kind \in {"badjson", "nochoices"}
     THEN smRespond(InternalError)
     ELSE IF Falsy(r.content)
     THEN smRespond(Response(500, "No summary generated"))
     ELSE smRespond([status |-> 200, body |-> "summary", summary |-> r.content])

\* ------------------------------------------------------------------------
\* The Email Gateway (supabase/functions/send-email), one request
\* ------------------------------------------------------------------------
\* emReq is the request being served, emPc where the handler is suspended,
\* emCalls the number of provider calls issued, emOut the last message given
\* to the provider, emReads what the handler read so far, emApiKey the key
\* it read.

\* A JSON value that is not a string (a number)
NotAString == <<"42">>

\* The recipients field of a body: absent, a value that is not an array
\* (a string), or an array of items
NoRecipients == [kind |-> "absent", items |-> <<>>]
ScalarRecipients == [kind |-> "scalar", items |-> <<>>]
ArrayOf(items) == [kind |-> "array", items |-> items]
RecipientValues ==
  {NoRecipients, ScalarRecipients, ArrayOf(<<>>), ArrayOf(<<<<"a">>>>),
   ArrayOf(<<<<"a">>, <<"b">>>>), ArrayOf(<<NotAString>>),
   ArrayOf(<<<<"a">>, NotAString>>)}

\* A request: its method, whether its body parses as JSON, and the fields of
\* the body (Null when absent)
EmailRequests ==
  [method : Methods, json : BOOLEAN, recipients : RecipientValues,
   summary : {Null, <<>>, <<"s", "\n", "t">>},
   originalPrompt : {Null, <<"p">>},
   title : {Null, <<"T">>}]

\* (req as any).title: the title property of the Request object itself,
\* which has none whatever the body holds
RequestTitle(req) == Null

MeetingSummary ==
  <<"M", "e", "e", "t", "i", "n", "g", " ", "S", "u", "m", "m", "a", "r", "y">>

\* toLocaleDateString('en-US', {year, month: 'long', day}) of the instant
LongDateString(t) == <<"D">> \o toString(t \div TicksPerDay)

\* What a template literal writes for a value
Interpolate(v) == IF v = Null THEN <<"undefined">> ELSE v

\* String.prototype.replace(/\n/g, '<br>')
RECURSIVE ReplaceNewlines(_)
ReplaceNewlines(s) ==
  IF s = <<>> THEN <<>>
  ELSE (IF Head(s) = "\n" THEN <<"<", "b", "r", ">">> ELSE <<Head(s)>>)
         \o ReplaceNewlines(Tail(s))

\* The HTML of the message: the markup of the template with its four holes
htmlContent(title, currentDate, originalPrompt, summary_) ==
  <<"<html><body><div><h1>">> \o title
    \o <<"</h1><div><p><strong>Generated on:</strong> ">> \o currentDate
    \o <<"</p><p><strong>Summary Instructions:</strong> ">>
    \o Interpolate(originalPrompt)
    \o <<"</p></div><div><h2>Summary</h2><div>">>
    \o ReplaceNewlines(summary_)
    \o <<"</div></div><div><p>This summary was generated using AI-powered meeting notes summarizer.</p></div></div></body></html>">>

\* A message addressed to the first recipient only
emailData_firstOnly(title, currentDate, req) ==
  [to |-> <<Head(req.recipients.items)>>,
   subject |-> title \o <<" ", "-", " ">> \o currentDate,
   html |-> htmlContent(title, currentDate, req.originalPrompt, req.summary)]

emailData(title, currentDate, req) ==
  [to |-> req.recipients.items,
   subject |-> title \o <<" ", "-", " ">> \o currentDate,
   html |-> htmlContent(title, currentDate, req.originalPrompt, req.summary)]

\* const title = (req as any).title || 'Meeting Summary'
emTitle(req) ==
  IF Falsy(RequestTitle(req)) THEN MeetingSummary ELSE RequestTitle(req)

\* The request the gateway receives when the controller posts the body b
\* (callSupabaseFunction: a POST with JSON.stringify(b))
PostOf(b) ==
  [method |-> "POST", json |-> TRUE, recipients |-> ArrayOf(b.recipients),
   summary |-> b.summary, originalPrompt |-> b.originalPrompt,
   title |-> b.title]

\* The message the gateway gives the provider for the body b at instant t
MessageFor(b, t) == emailData(emTitle(PostOf(b)), LongDateString(t), PostOf(b))

emRespond(r) ==
  /\ emResponse' = r
  /\ emPc' = "done"

\* emServe that does not look at what Deno.env.get gave
emServe_noKeyCheck(req, key, t) ==
  /\ emPc = "idle"
  /\ emReq' = req
  /\ emEnv' = key
  /\ UNCHANGED <<emResult, ctlVars, vtVars, smVars>>
  /\ IF req.method = "OPTIONS"
     THEN /\ emRespond(Response(200, ""))
          /\ UNCHANGED <<emReads, emApiKey, emCalls, emOut>>
     ELSE IF req.method # "POST"
     THEN /\ emRespond(Response(405, "Method not allowed"))
          /\ UNCHANGED <<emReads, emApiKey, emCalls, emOut>>
     ELSE IF ~req.json
     THEN /\ emRespond(InternalError)
          /\ emReads' = {"body"}
          /\ UNCHANGED <<emApiKey, emCalls, emOut>>
     ELSE IF req.recipients.kind # "array" \/ Len(req.recipients.items) = 0
     THEN /\ emRespond(Response(400, "Missing or invalid recipients"))
          /\ emReads' = {"body"}
          /\ UNCHANGED <<emApiKey, emCalls, emOut>>
     ELSE IF Falsy(req.summary)
     THEN /\ emRespond(Response(400, "Missing summary content"))
          /\ emReads' = {"body"}
          /\ UNCHANGED <<emApiKey, emCalls, emOut>>
     ELSE LET title == emTitle(req)
          IN /\ emReads' = {"body", "key"}
             /\ emApiKey' = key
             /\ emCalls' = emCalls + 1
             /\ emOut' = emailData(title, LongDateString(t), req)
             /\ emPc' = "fetch"
             /\ UNCHANGED emResponse

\* The handler from the arrival of the request to the await of the provider
\* call (or to its response); t is the instant new Date() gives
emServe(req, key, t) ==
  /\ emPc = "idle"
  /\ emReq' = req
  /\ emEnv' = key
  /\ UNCHANGED <<emResult, ctlVars, vtVars, smVars>>
  /\ IF req.method = "OPTIONS"
     THEN /\ emRespond(Response(200, ""))
          /\ UNCHANGED <<emReads, emApiKey, emCalls, emOut>>
     ELSE IF req.method # "POST"
     THEN /\ emRespond(Response(405, "Method not allowed"))
          /\ UNCHANGED <<emReads, emApiKey, emCalls, emOut>>
     ELSE IF ~req.json
     THEN /\ emRespond(InternalError)
          /\ emReads' = {"body"}
          /\ UNCHANGED <<emApiKey, emCalls, emOut>>
     ELSE IF req.recipients.kind # "array" \/ Len(req.recipients.items) = 0
     THEN /\ emRespond(Response(400, "Missing or invalid recipients"))
          /\ emReads' = {"body"}
          /\ UNCHANGED <<emApiKey, emCalls, emOut>>
     ELSE IF Falsy(req.summary)
     THEN /\ emRespond(Response(400, "Missing summary content"))
          /\ emReads' = {"body"}
          /\ UNCHANGED <<emApiKey, emCalls, emOut>>
     ELSE IF key = Null
     THEN /\ emRespond(Response(500, "Email service not configured"))
          /\ emReads' = {"body", "key"}
          /\ emApiKey' = key
          /\ UNCHANGED <<emCalls, emOut>>
     ELSE LET title == emTitle(req)
          IN /\ emReads' = {"body", "key"}
             /\ emApiKey' = key
             /\ emCalls' = emCalls + 1
             /\ emOut' = emailData(title, LongDateString(t), req)
             /\ emPc' = "fetch"
             /\ UNCHANGED emResponse

\* The provider call settles and the handler runs to its response: "ok",
\* "notok" (a non-success status), "badjson" (a success whose body is not
\* JSON) or "throw" (the fetch rejects); emResult keeps how it settled
EmailOutcomes == {"ok", "notok", "badjson", "throw"}

emFetchReturn(outcome) ==
  /\ emPc = "fetch"
  /\ emResult' = outcome
  /\ UNCHANGED <<emReads, emApiKey, emEnv, emReq, emCalls, emOut, ctlVars, vtVars,
                 smVars>>
  /\ IF outcome = "ok"
     THEN emRespond(Response(200, "Email sent successfully"))
     ELSE IF outcome = "notok"
     THEN emRespond(Response(500, "Failed to send email"))
     ELSE emRespond(InternalError)

\* ------------------------------------------------------------------------
\* The three endpoints, one request to one of them
\* ------------------------------------------------------------------------
\* The endpoints are separate functions that share no state: a behaviour
\* follows one request to one endpoint.
OthersIdle(pc1, pc2) == pc1 = "idle" /\ pc2 = "idle"

NextGateways ==
  \/ /\ OthersIdle(smPc, emPc)
     /\ \E req \in Requests, key \in ApiKeys : vtServe(req, key)
  \/ \E o \in Outcomes : vtUploadReturn(o)
  \/ \E o \in Outcomes : vtSubmitReturn(o)
  \/ vtSleepDone
  \/ \E r \in PollResults : vtPollReturn(r)
  \/ /\ OthersIdle(vtPc, emPc)
     /\ \E req \in SummarizeRequests, key \in ApiKeys : smServe(req, key)
  \/ \E r \in ChatResults : smFetchReturn(r)
  \/ /\ OthersIdle(vtPc, smPc)
     /\ \E req \in EmailRequests, key \in ApiKeys, t \in 0..MaxClock :
          emServe(req, key, t)
  \/ \E o \in EmailOutcomes : emFetchReturn(o)

SpecGateways == Init /\ [][NextGateways]_vars

\* ------------------------------------------------------------------------
\* Properties
\* ------------------------------------------------------------------------
GenerateNames == {"generateSummary", "regenerateSummary"}

Last(q) == q[Len(q)]

\* C1: generate() on a transcript that is empty or only whitespace issues
\* no gateway call, shows the error notification, and leaves summary, title
\* and the generating flag as they were.
C1_EmptyTranscriptRejected ==
  [][(lastOp'.name \in GenerateNames /\ Trim(transcript) = <<>>)
       => /\ UNCHANGED net
          /\ message' = "Please provide a transcript first."
          /\ messageType' = "error"
          /\ UNCHANGED <<summary, summaryTitle, isGenerating>>]_vars

C1_Witness ==
  /\ lastOp.name = "generateSummary"
  /\ transcript = <<" ">>
  /\ summary # <<>>
  /\ message = "Please provide a transcript first."
  /\ summarizeCalls = <<>>

\* C2 as stated: for every non-empty transcript and prompt, generate()
\* issues exactly one summarize call whose body holds both verbatim.
C2_Verbatim ==
  [][(lastOp'.name \in GenerateNames /\ transcript # <<>>
        /\ customPrompt # <<>>)
       => /\ Len(summarizeCalls') = Len(summarizeCalls) + 1
          /\ Last(summarizeCalls').transcript = transcript
          /\ Last(summarizeCalls').prompt = customPrompt]_vars

\* C2 amended: for every transcript that is non-empty after trimming,
\* generate() issues exactly one summarize call, and no other call, whose
\* body holds the trimmed transcript and the trimmed prompt; when a
\* summarize call succeeds the held summary is the content returned.
C2_TrimmedBody ==
  [][/\ (lastOp'.name \in GenerateNames /\ Trim(transcript) # <<>>)
          => /\ summarizeCalls' =
                  Append(summarizeCalls,
                         [transcript |-> Trim(transcript),
                          prompt |-> Trim(customPrompt)])
             /\ UNCHANGED <<emailCalls, voiceCalls>>
     /\ lastOp'.name = "generateSucceed"
          => /\ summary' = lastOp'.arg
             /\ Len(summarizeCalls') = Len(summarizeCalls) - 1]_vars

C2_Witness ==
  /\ lastOp.name = "generateSummary"
  /\ transcript = <<" ", "a", " ">>
  /\ customPrompt = <<"p", " ">>
  /\ summarizeCalls = <<[transcript |-> <<"a">>, prompt |-> <<"p">>]>>

\* C3: the steps of a generate() that fails (the call being issued, the
\* failure being handled) leave transcript, prompt, summary, title, history
\* and selection as they were.
C3_FailedGeneratePreserves ==
  [][(\/ lastOp'.name = "generateFail"
      \/ lastOp'.name \in GenerateNames)
       => UNCHANGED <<transcript, customPrompt, summary, summaryTitle,
                      storedResponses, selectedResponse>>]_vars

C3_Witness ==
  /\ lastOp.name = "generateFail"
  /\ transcript # <<>>
  /\ summary # <<>>
  /\ storedResponses # <<>>
  /\ selectedResponse # NoSelection
  /\ message = "Error generating summary. Please try again."

HistoryIds == {storedResponses[i].id : i \in DOMAIN storedResponses}

\* C4: the ids of the entries of history are pairwise distinct, whatever
\* the clock read at each save().
C4_IdsDistinct ==
  \A i, j \in DOMAIN storedResponses :
    i # j => storedResponses[i].id # storedResponses[j].id

\* C5: load(id) with an id that is not in history changes no field, no
\* flag, no notification, no selection and no history entry, and issues no
\* call; the state after it is the state before it, so that a second load
\* does the same.
C5_LoadUnknownIsNoOp ==
  [][(lastOp'.name = "loadStoredResponse" /\ lastOp'.arg \notin HistoryIds)
       => UNCHANGED <<fields, flags, notif, hist, now, net>>]_vars

C5_Witness ==
  /\ lastOp.name = "loadStoredResponse"
  /\ lastOp.arg \notin HistoryIds
  /\ storedResponses # <<>>
  /\ selectedResponse # NoSelection
  /\ summary # <<>>
  /\ message # ""

\* C6: delete(id) of an id in history removes exactly one entry, keeps the
\* others in their order, and clears the selection exactly when the deleted
\* id was the selected one.
C6_DeleteRemovesOne ==
  [][(lastOp'.name = "deleteStoredResponse" /\ lastOp'.arg \in HistoryIds)
       => /\ Len(storedResponses') = Len(storedResponses) - 1
          /\ \E k \in DOMAIN storedResponses :
               /\ storedResponses[k].id = lastOp'.arg
               /\ storedResponses' = RemoveAt(storedResponses, k)
          /\ selectedResponse' =
               IF selectedResponse = lastOp'.arg THEN NoSelection
               ELSE selectedResponse]_vars

\* Array.prototype.filter(entry => entry !== "")
RECURSIVE NonEmptyEntries(_)
NonEmptyEntries(a) ==
  IF a = <<>> THEN <<>>
  ELSE (IF Head(a) = <<>> THEN <<>> ELSE <<Head(a)>>)
         \o NonEmptyEntries(Tail(a))

\* C7: the recipients sendEmail forwards are the trimmed comma-separated
\* entries of the recipients string, in order, without the empty ones.
C7_RecipientsSplit ==
  [][(lastOp'.name = "sendEmail" /\ emailCalls' # emailCalls)
       => /\ Len(emailCalls') = Len(emailCalls) + 1
          /\ Last(emailCalls').recipients =
               NonEmptyEntries(MapTrim(Split(emailRecipients, ",")))]_vars

\* A poll that reports a job still queued or being processed
NonTerminal(r) ==
  r.kind = "json" /\ r.ok /\ r.status \in {"queued", "processing"}

\* A poll that reports a terminal job status
Terminal(r) == r.kind = "json" /\ r.status \in {"completed", "error"}

\* k >= 1 polls of a non-terminal job, then a successful poll of the
\* completed job
PendingThenCompleted ==
  /\ Len(vtPollLog) >= 2
  /\ \A i \in 1..(Len(vtPollLog) - 1) : NonTerminal(vtPollLog[i])
  /\ Last(vtPollLog).kind = "json"
  /\ Last(vtPollLog).ok
  /\ Last(vtPollLog).status = "completed"

\* No poll result follows a terminal one
NoPollAfterTerminal ==
  \A i \in 1..(Len(vtPollLog) - 1) : ~Terminal(vtPollLog[i])

\* C8 as stated: after k >= 1 non-terminal polls and a completed one the
\* gateway has issued exactly k+1 polls and responds 200 with the text of
\* the job.
C8_RespondsWithText ==
  PendingThenCompleted
    => /\ vtPolls = Len(vtPollLog)
       /\ vtPc = "done"
       /\ vtResponse.status = 200
       /\ vtResponse.body.transcription = Last(vtPollLog).text

\* C8 amended: after k >= 1 non-terminal polls and a completed one the
\* gateway has issued exactly k+1 polls, none after the terminal one, and
\* responds 200 with the text of the job trimmed when that text is not
\* empty, and 500 when the text is empty or absent.
C8_PollsUntilCompleted ==
  /\ NoPollAfterTerminal
  /\ PendingThenCompleted
       => /\ vtPolls = Len(vtPollLog)
          /\ vtPc = "done"
          /\ IF Last(vtPollLog).text \in {Null, <<>>}
             THEN vtResponse.status = 500
             ELSE /\ vtResponse.status = 200
                  /\ vtResponse.body.transcription =
                       Trim(Last(vtPollLog).text)

C8_Witness ==
  /\ PendingThenCompleted
  /\ Len(vtPollLog) = 3
  /\ Last(vtPollLog).text = <<" ", "h", "i", "\n">>
  /\ vtResponse.status = 200
  /\ vtResponse.body.transcription = <<"h", "i">>

\* C9: a poll that returns the job status `error` is the last outbound call
\* of the request: the gateway responds 500, and the request has issued one
\* upload, one job submission and no poll after that one.
C9_ErrorStopsPolling ==
  \A i \in DOMAIN vtPollLog :
    (vtPollLog[i].kind = "json" /\ vtPollLog[i].status = "error")
      => /\ i = Len(vtPollLog)
         /\ vtPolls = Len(vtPollLog)
         /\ vtUploads = 1
         /\ vtSubmits = 1
         /\ vtPc = "done"
         /\ vtResponse.status = 500

C9_Witness ==
  /\ Len(vtPollLog) = 2
  /\ NonTerminal(vtPollLog[1])
  /\ vtPollLog[2].kind = "json"
  /\ vtPollLog[2].ok
  /\ vtPollLog[2].status = "error"
  /\ vtResponse.status = 500

\* A poll that ends the loop: a terminal status or a failing poll
Stops(r) == r.kind # "json" \/ ~r.ok \/ r.status \in {"completed", "error"}

\* C10: once in the poll loop, the request has a response if and only if
\* the last poll returned a terminal status or failed; however many polls
\* of a non-terminal job there were, there is no response yet.
C10_ResponseOnlyAtTerminal ==
  (vtPc \in {"sleep", "poll"} \/ vtPollLog # <<>>)
    => ((vtResponse.status # 0)
          <=> (vtPollLog # <<>> /\ Stops(Last(vtPollLog))))

C10_Witness ==
  /\ vtPolls = MaxPolls
  /\ Len(vtPollLog) = MaxPolls
  /\ \A i \in DOMAIN vtPollLog : NonTerminal(vtPollLog[i])
  /\ vtPc = "sleep"
  /\ vtResponse.status = 0

\* ------------------------------------------------------------------------
\* The request screens of the three endpoints
\* ------------------------------------------------------------------------
\* A request of the given method was answered with the given status, its
\* body unread and no outbound call made
Screened(req, method, status, pc, response, reads, calls) ==
  req.method = method =>
    /\ pc = "done"
    /\ response.status = status
    /\ "body" \notin reads
    /\ calls = 0

vtOutbound == vtUploads + vtSubmits + vtPolls

\* C11: each of the three endpoints answers OPTIONS with 200 and a method
\* other than POST and OPTIONS with 405, in both cases without reading the
\* body and without any outbound call.
C11_MethodScreen ==
  /\ Screened(smReq, "OPTIONS", 200, smPc, smResponse, smReads, smCalls)
  /\ Screened(emReq, "OPTIONS", 200, emPc, emResponse, emReads, emCalls)
  /\ Screened(vtReq, "OPTIONS", 200, vtPc, vtResponse, vtReads, vtOutbound)
  /\ \A m \in Methods \ {"POST", "OPTIONS"} :
       /\ Screened(smReq, m, 405, smPc, smResponse, smReads, smCalls)
       /\ Screened(emReq, m, 405, emPc, emResponse, emReads, emCalls)
       /\ Screened(vtReq, m, 405, vtPc, vtResponse, vtReads, vtOutbound)

\* A GET carrying a complete body was refused by the Summarization Gateway
C11_Witness ==
  /\ smReq.method = "GET"
  /\ smReq.json
  /\ smReq.transcript = <<"a">>
  /\ smReq.prompt = <<"p">>
  /\ smResponse.status = 405

\* The requests the spec calls well-formed, per endpoint
IsString(v) == v \notin {Null, NotAString}
StringList(r) ==
  /\ r.kind = "array"
  /\ Len(r.items) > 0
  /\ \A i \in 1..Len(r.items) : IsString(r.items[i])
smWellFormed(req) ==
  /\ req.method = "POST" /\ req.json
  /\ ~Falsy(req.transcript) /\ ~Falsy(req.prompt)
emWellFormed(req) ==
  /\ req.method = "POST" /\ req.json
  /\ StringList(req.recipients) /\ ~Falsy(req.summary)
vtWellFormed(req) ==
  /\ req.method = "POST" /\ req.form
  /\ req.audio # NoFile

\* The request was answered with 500 and no outbound call was made
Unconfigured(pc, response, calls) ==
  /\ pc = "done"
  /\ response.status = 500
  /\ calls = 0

\* C12: at each endpoint a well-formed POST served while the provider API
\* key is absent is answered with 500 and no outbound call is made; it is
\* never answered with 200.
C12_KeyAbsent ==
  /\ smWellFormed(smReq) /\ smApiKey = Null
       => Unconfigured(smPc, smResponse, smCalls)
  /\ emWellFormed(emReq) /\ emApiKey = Null
       => Unconfigured(emPc, emResponse, emCalls)
  /\ vtWellFormed(vtReq) /\ vtApiKey = Null
       => Unconfigured(vtPc, vtResponse, vtOutbound)

\* A well-formed email request was served without a key
C12_Witness ==
  /\ emWellFormed(emReq)
  /\ "key" \in emReads
  /\ emApiKey = Null
  /\ emResponse.status = 500

\* A field of a JSON body that is missing or the empty string
MissingOrEmpty(v) == v \in {Null, <<>>}

\* C13: the Summarization Gateway answers 400, and makes no provider call,
\* for every POST whose body lacks a transcript or a prompt or holds an
\* empty one.
C13_MissingInput ==
  /\ smReq.method = "POST" /\ smReq.json
  /\ MissingOrEmpty(smReq.transcript) \/ MissingOrEmpty(smReq.prompt)
  => /\ smPc = "done"
     /\ smResponse.status = 400
     /\ smCalls = 0

\* A POST with a transcript and an empty prompt was refused although a key
\* is configured
C13_Witness ==
  /\ smReq.method = "POST" /\ smReq.json
  /\ smReq.transcript = <<"a">>
  /\ smReq.prompt = <<>>
  /\ smResponse.status = 400

\* C14: the Email Gateway answers 400, and makes no provider call, whenever
\* recipients is absent, is not a sequence, is empty or holds an element
\* that is not a string, or summary is empty; so every request that reaches
\* the provider has a non-empty list of string recipients and a non-empty
\* summary.
C14_RecipientsValidated ==
  /\ /\ emReq.method = "POST" /\ emReq.json
     /\ ~StringList(emReq.recipients) \/ MissingOrEmpty(emReq.summary)
     => /\ emPc = "done"
        /\ emResponse.status = 400
        /\ emCalls = 0
  /\ emCalls > 0 =>
       /\ StringList(emReq.recipients)
       /\ ~MissingOrEmpty(emReq.summary)

\* The string s begins with the string t
StartsWith(s, t) == Len(s) >= Len(t) /\ SubSeq(s, 1, Len(t)) = t

\* The message given to the provider has t as its heading (what follows the
\* opening markup) and at the front of its subject
Titled(msg, t) ==
  /\ StartsWith(Tail(msg.html), t \o <<"</h1><div><p><strong>Generated on:</strong> ">>)
  /\ StartsWith(msg.subject, t \o <<" ", "-", " ">>)

\* C15: when the body of a /send-email request carries a title, the message
\* given to the provider has that title as its heading and in its subject;
\* the default "Meeting Summary" is used only when the body has no title.
C15_TitleUsed ==
  emCalls > 0 =>
    IF emReq.title # Null THEN Titled(emOut, emReq.title)
    ELSE Titled(emOut, MeetingSummary)

\* C16: the transcript is never emailed: the body sendEmail posts, and the
\* message the Email Gateway builds from it, are the same as in the run
\* that holds any other transcript (same summary, prompt, title and
\* recipients).
C16_TranscriptNotEmailed ==
  [][lastOp'.name = "sendEmail" /\ Len(emailCalls') > Len(emailCalls)
       => \A other \in TranscriptInputs :
            LET twin == EmailPayload(other, customPrompt, summary,
                                     summaryTitle, emailRecipients)
            IN /\ Last(emailCalls') = twin
               /\ \A t \in 0..MaxClock :
                    MessageFor(Last(emailCalls'), t) = MessageFor(twin, t)]_vars

\* A body was posted while a transcript was held
C16_Witness ==
  /\ lastOp.name = "sendEmail"
  /\ transcript = <<"b">>
  /\ Len(emailCalls) > 0
  /\ Last(emailCalls).summary = <<"e">>

\* ------------------------------------------------------------------------
\* The downloaded file
\* ------------------------------------------------------------------------
\* n times the sign "="
Underline(n) == [i \in 1..n |-> "="]

\* The layout the file has: the title, a line of "=" as long as the title,
\* an empty line, the Generated: line, the Prompt: line, an empty line, the
\* summary
Layout(title, stamp, prompt, body) ==
  title \o <<"\n">> \o Underline(Len(title)) \o <<"\n">>
    \o <<"\n">>
    \o <<"G", "e", "n", "e", "r", "a", "t", "e", "d", ":", " ">> \o stamp
    \o <<"\n">>
    \o <<"P", "r", "o", "m", "p", "t", ":", " ">> \o prompt \o <<"\n">>
    \o <<"\n">>
    \o body

\* This step saved a file of the layout, made of the held title, prompt and
\* summary
Emits ==
  /\ savedFile'.content
       = Layout(summaryTitle, LocaleString(now), customPrompt, summary)
  /\ message' = "Summary downloaded successfully!"

\* This step saved no file and reported an error
EmitsNothing ==
  /\ UNCHANGED savedFile
  /\ message' = "No summary to download."
  /\ messageType' = "error"

\* C17 as stated: download() with a non-empty held summary emits the file
\* of the layout, and with an empty summary emits no file and reports an
\* error.
C17_DownloadNonEmpty ==
  [][lastOp'.name = "downloadSummary"
       => IF summary # <<>> THEN Emits ELSE EmitsNothing]_vars

\* C17 amended: download() emits the file of the layout when the held
\* summary is non-empty after trimming, and otherwise (empty or only
\* whitespace) emits no file and reports an error.
C17_DownloadTrimmed ==
  [][lastOp'.name = "downloadSummary"
       => IF Trim(summary) # <<>> THEN Emits ELSE EmitsNothing]_vars

\* A file was saved for the title "T!" and a summary of two lines; and a
\* whitespace-only summary was refused.
C17_Witness ==
  /\ lastOp.name = "downloadSummary"
  /\ summaryTitle = <<"T", "!">>
  /\ summary = <<"e", "\n", "f">>
  /\ savedFile.name = <<"t", "_", ".", "t", "x", "t">>
  /\ Len(savedFile.content) > 0
  /\ message = "Summary downloaded successfully!"

\* ------------------------------------------------------------------------
\* Voice upload
\* ------------------------------------------------------------------------
\* C18: when the voice-to-text call of uploadAudio succeeds the held
\* transcript becomes the transcription returned; when it fails an error is
\* shown and transcript, prompt, summary, title and history are unchanged.
C18_VoiceUpload ==
  [][/\ lastOp'.name = "voiceSucceed" => transcript' = lastOp'.arg
     /\ lastOp'.name = "voiceFail"
          => /\ message' = "Error processing voice file. Please try again."
             /\ messageType' = "error"
             /\ UNCHANGED <<transcript, customPrompt, summary, summaryTitle,
                            storedResponses>>]_vars

\* A voice upload failed while a transcript, a summary and a history entry
\* were held
C18_Witness ==
  /\ lastOp.name = "voiceFail"
  /\ transcript = <<"b">>
  /\ summary = <<"e">>
  /\ Len(storedResponses) > 0
  /\ messageType = "error"

\* ------------------------------------------------------------------------
\* Sending the summary
\* ------------------------------------------------------------------------
\* C19: sendEmail() issues no call when the held summary is empty or the
\* recipients string is empty or only whitespace; hence every request sent
\* to the Email Gateway has a non-empty recipients list and a non-empty
\* summary.
C19_NoCallWithoutInput ==
  [][/\ /\ lastOp'.name = "sendEmail"
        /\ summary = <<>> \/ \A k \in 1..Len(emailRecipients) :
                               emailRecipients[k] \in WhiteSpace
        => UNCHANGED emailCalls
     /\ \A i \in DOMAIN emailCalls' :
          /\ Len(emailCalls'[i].recipients) > 0
          /\ emailCalls'[i].summary # <<>>]_vars

\* sendEmail was refused for a recipients string of one blank while a
\* summary was held
C19_Witness ==
  /\ lastOp.name = "sendEmail"
  /\ summary = <<"e", " ">>
  /\ emailRecipients = <<" ">>
  /\ emailCalls = <<>>
  /\ message = "Please enter at least one email recipient."

\* C20: when the send-email call fails the controller shows an error and
\* leaves the recipients string, transcript, prompt, summary, title, history
\* and selection as they were; only a successful send clears the recipients
\* string, and it changes no other field.
C20_SendOutcome ==
  [][/\ lastOp'.name = "sendFail"
          => /\ message' = "Error sending email. Please try again."
             /\ messageType' = "error"
             /\ UNCHANGED <<fields, hist>>
     /\ lastOp'.name = "sendSucceed"
          => /\ emailRecipients' = <<>>
             /\ UNCHANGED <<transcript, customPrompt, summary, summaryTitle,
                            hist>>
     /\ lastOp'.name = "sendEmail" => UNCHANGED <<fields, hist>>]_vars

\* A send failed and the recipients string is still held
C20_Witness ==
  /\ lastOp.name = "sendFail"
  /\ emailRecipients = <<"a", ",", " ", "b">>
  /\ transcript = <<"b">>
  /\ summary = <<"e", " ">>
  /\ messageType = "error"

\* ------------------------------------------------------------------------
\* The summarize request on the wire
\* ------------------------------------------------------------------------
\* C21: every request the controller sends to /summarize has a non-empty
\* transcript and a non-empty prompt, whatever transcript and prompt the
\* user has set.
C21_WireInvariant ==
  \A i \in DOMAIN summarizeCalls :
    /\ summarizeCalls[i].transcript # <<>>
    /\ summarizeCalls[i].prompt # <<>>
\* ------------------------------------------------------------------------
\* Loading and saving history entries
\* ------------------------------------------------------------------------
\* The working fields after this step are those stored in the entry e, and
\* the selection is its id
LoadedFrom(e) ==
  /\ summary' = e.summary.content
  /\ customPrompt' = e.summary.prompt
  /\ transcript' = e.summary.originalTranscript
  /\ summaryTitle' = e.summary.title
  /\ selectedResponse' = e.id

\* C22: load(id) with an id present in history sets the held transcript,
\* prompt, summary and title to the values stored in the entry of that id,
\* marks it as the selection, and leaves history unchanged.
C22_LoadPresent ==
  [][lastOp'.name = "loadStoredResponse"
       => \A i \in DOMAIN storedResponses :
            storedResponses[i].id = lastOp'.arg
              => LoadedFrom(storedResponses[i]) /\ UNCHANGED storedResponses]_vars

\* The instant an entry was saved at, read back from its id
SavedAt(e) == CHOOSE t \in 0..MaxClock : toString(t) = e.id

\* History runs from the newest-saved entry to the oldest
NewestFirst(h) ==
  \A i, j \in DOMAIN h : i < j => SavedAt(h[i]) >= SavedAt(h[j])

\* This step put one new entry, holding the summary as held, in front of
\* the entries history had
Prepends ==
  /\ Len(storedResponses') = Len(storedResponses) + 1
  /\ Tail(storedResponses') = storedResponses
  /\ Head(storedResponses').summary.content = summary
  /\ Head(storedResponses').timestamp = ISOString(now)

\* C23 as stated: save() with a non-empty held summary puts exactly one new
\* entry at the front of history and keeps the previous entries in their
\* order, so history is always ordered newest-saved first; save() with an
\* empty summary leaves history unchanged.
C23_SaveNonEmpty ==
  [][/\ lastOp'.name = "saveSummary"
          => IF summary # <<>> THEN Prepends ELSE UNCHANGED storedResponses
     /\ NewestFirst(storedResponses')]_vars

\* C23 amended: save() prepends exactly one entry when the held summary is
\* non-empty after trimming and leaves history unchanged otherwise (empty or
\* only whitespace); history is always ordered newest-saved first.
C23_SaveTrimmed ==
  [][/\ lastOp'.name = "saveSummary"
          => IF Trim(summary) # <<>> THEN Prepends
             ELSE UNCHANGED storedResponses
     /\ NewestFirst(storedResponses')]_vars

\* A second entry was saved later than the first and sits in front of it
C23_Witness ==
  /\ lastOp.name = "saveSummary"
  /\ Len(storedResponses) = 2
  /\ storedResponses[1].timestamp = ISOString(1)
  /\ storedResponses[2].timestamp = ISOString(0)

\* ------------------------------------------------------------------------
\* The outcome of a transcription request
\* ------------------------------------------------------------------------
\* C24: every 200 response of /voice-to-text to a POST carries a non-empty
\* transcription: when the text the provider yields is empty after the
\* gateway's trimming, the response is 500.
C24_NonEmptyTranscription ==
  vtReq.method = "POST" /\ vtResponse.status = 200
    => vtResponse.body.transcription # <<>>

\* A poll that failed: the fetch rejected, or the HTTP status was not a
\* success
FailedPoll(r) == r.kind = "throw" \/ ~r.ok

\* C25: when a poll fails at transport level or returns a non-success HTTP
\* status, the gateway stops polling and responds 500, whatever the body of
\* the failed poll holds.
C25_FailedPollIs500 ==
  \A i \in DOMAIN vtPollLog :
    FailedPoll(vtPollLog[i])
      => /\ i = Len(vtPollLog)
         /\ vtPc = "done"
         /\ vtResponse.status = 500

\* ------------------------------------------------------------------------
\* The provider calls of /summarize and /send-email
\* ------------------------------------------------------------------------
\* The provider answered with a success status
ChatSucceeded == smResult.kind \in {"json", "nochoices", "badjson"}

\* C26: on a success response of the chat-completion provider the summary
\* /summarize returns is the message content of the first choice; when the
\* response has no choices, or the first choice has no content or an empty
\* one, the gateway responds 500 and never 200.
C26_FirstChoice ==
  ChatSucceeded =>
    IF smResult.kind = "json" /\ smResult.content \notin {Null, <<>>}
    THEN smResponse.status = 200 /\ smResponse.summary = smResult.content
    ELSE smResponse.status = 500

\* A response without content in its first choice was answered with 500
C26_Witness ==
  /\ smResult.kind = "json"
  /\ smResult.content = <<>>
  /\ smPc = "done"
  /\ smResponse.status = 500

\* C27: a /summarize request that passes validation with a configured key
\* causes exactly one call to the chat-completion provider, whether the
\* call succeeds or fails; the gateway never repeats it.
C27_OneProviderCall ==
  /\ smCalls <= 1
  /\ smWellFormed(smReq) /\ smApiKey # Null => smCalls = 1

\* The single call came back with a non-success status and the request was
\* answered
C27_Witness ==
  /\ smResult.kind = "notok"
  /\ smPc = "done"
  /\ smResponse.status = 500
  /\ smCalls = 1

\* C28: a valid /send-email request causes exactly one call to the email
\* provider, and that one message lists all the recipients of the request,
\* in their order, in its to field.
C28_OneMessage ==
  /\ emCalls <= 1
  /\ emWellFormed(emReq) /\ emApiKey # Null
       => /\ emCalls = 1
          /\ emOut.to = emReq.recipients.items

\* One message went out for a request with two recipients
C28_Witness ==
  /\ emCalls = 1
  /\ emReq.recipients = ArrayOf(<<<<"a">>, <<"b">>>>)
  /\ emOut.to = <<<<"a">>, <<"b">>>>
  /\ emResponse.status = 200

\* ------------------------------------------------------------------------
\* Transcription and summarization side by side
\* ------------------------------------------------------------------------
\* C29: transcription and summarization do not exclude each other: a voice
\* upload can start while a summarize call is in flight and a generation
\* while a voice call is in flight; whichever call returns writes its field
\* whatever the other field holds by then; and save() stores the held
\* summary with the held transcript, even when the summary came from another
\* transcript.
C29_NoMutualExclusion ==
  /\ [](summarizeCalls # <<>> /\ Len(voiceCalls) < MaxUploads
          => \A f \in UploadFiles :
               ENABLED (handleFileUpload(f, "voice") /\ voiceCalls' # voiceCalls))
  /\ [](/\ voiceCalls # <<>> /\ Len(summarizeCalls) < MaxInFlight
        /\ Trim(transcript) # <<>>
        => ENABLED (generateSummary /\ summarizeCalls' # summarizeCalls))
  /\ [][/\ lastOp'.name = "voiceSucceed"
             => /\ transcript' = lastOp'.arg
                /\ UNCHANGED <<summary, summarizeCalls, isGenerating>>
        /\ lastOp'.name = "generateSucceed"
             => /\ summary' = lastOp'.arg
                /\ UNCHANGED <<transcript, voiceCalls, isProcessingVoice>>
        /\ lastOp'.name = "saveSummary" /\ Trim(summary) # <<>>
             => /\ Head(storedResponses').summary.content = summary
                /\ Head(storedResponses').summary.originalTranscript
                     = transcript]_vars

\* The summary of transcript "b" was saved paired with the transcription
\* "v" that arrived while it was being generated
C29_Witness ==
  /\ lastOp.name = "saveSummary"
  /\ generatedFrom = <<"b">>
  /\ transcript = <<"v">>
  /\ Len(storedResponses) > 0
  /\ Head(storedResponses).summary.content = <<"s">>
  /\ Head(storedResponses).summary.originalTranscript = <<"v">>

\* ------------------------------------------------------------------------
\* The busy flags
\* ------------------------------------------------------------------------
\* C30: each busy flag tracks its gateway call exactly: isGenerating (resp.
\* isProcessingVoice, isSending) is true if and only if a summarize (resp.
\* voice-to-text, send-email) call of the controller is in flight.
C30_FlagsTrackCalls ==
  /\ isGenerating <=> summarizeCalls # <<>>
  /\ isProcessingVoice <=> voiceCalls # <<>>
  /\ isSending <=> emailCalls # <<>>

\* ------------------------------------------------------------------------
\* The order of the outbound calls of the transcription request
\* ------------------------------------------------------------------------
\* C31: the outbound calls of a transcription request occur in the order
\* upload, job submission, polls, each poll issued after a sleep; upload
\* and submission are issued at most once; an upload (resp. a submission)
\* that does not succeed ends the request with 500 and no submission
\* (resp. no poll) is issued afterwards.
C31_CallOrder ==
  [][/\ vtUploads' <= 1 /\ vtSubmits' <= 1
     /\ vtUploads' > vtUploads
          => vtPc = "idle" /\ vtSubmits = 0 /\ vtPolls = 0
     /\ vtSubmits' > vtSubmits
          => vtPc = "upload" /\ vtUploads = 1 /\ vtPolls = 0
     /\ vtPolls' > vtPolls
          => vtPc = "sleep" /\ vtSubmits = 1 /\ vtPolls' = vtPolls + 1
     /\ Len(vtOutcomes') >= 1 /\ vtOutcomes'[1] # "ok"
          => /\ vtPc' = "done" /\ vtResponse'.status = 500
             /\ vtSubmits' = 0 /\ vtPolls' = 0
     /\ Len(vtOutcomes') >= 2 /\ vtOutcomes'[2] # "ok"
          => /\ vtPc' = "done" /\ vtResponse'.status = 500
             /\ vtPolls' = 0
     /\ vtPc = "done"
          => UNCHANGED <<vtUploads, vtSubmits, vtPolls>>]_vars

\* The upload succeeded, the submission did not, and the request ended
\* without a poll
C31_Witness ==
  /\ vtOutcomes = <<"ok", "notok">>
  /\ vtPc = "done"
  /\ vtUploads = 1
  /\ vtSubmits = 1
  /\ vtPolls = 0
  /\ vtResponse.status = 500

\* ------------------------------------------------------------------------
\* The entries of history
\* ------------------------------------------------------------------------
\* The entries of h whose id is not the given one, in their order
Without(h, id) == SelectSeq(h, LAMBDA e : e.id # id)

\* C32: no operation modifies an entry that is in history: an edit of the
\* held summary, title, prompt or transcript, a generation, a load or
\* another save leaves every stored entry as it is; history changes only
\* by save putting one entry in front and by delete removing entries.
C32_EntriesImmutable ==
  [][\/ UNCHANGED storedResponses
     \/ /\ lastOp'.name = "saveSummary"
        /\ Len(storedResponses') = Len(storedResponses) + 1
        /\ Tail(storedResponses') = storedResponses
     \/ /\ lastOp'.name = "deleteStoredResponse"
        /\ storedResponses' = Without(storedResponses, lastOp'.arg)]_vars

\* An entry was loaded and the held title and prompt were then edited: the
\* entry still has the title and the prompt it was saved with
C32_Witness ==
  /\ Len(storedResponses) = 1
  /\ selectedResponse = storedResponses[1].id
  /\ storedResponses[1].summary.title = DefaultTitle(0)
  /\ storedResponses[1].summary.prompt = DefaultPrompt
  /\ summaryTitle = <<"T", "!">>
  /\ customPrompt = <<"p", " ">>

\* C33: in every reachable state the selection is empty or the id of an
\* entry that is in history.
C33_SelectionValid ==
  selectedResponse = NoSelection \/ selectedResponse \in HistoryIds

\* Another entry was deleted and the selected one is still there
C33_Witness ==
  /\ lastOp.name = "deleteStoredResponse"
  /\ selectedResponse # NoSelection
  /\ selectedResponse # lastOp.arg
  /\ selectedResponse \in HistoryIds

\* C34: a notification is cleared only by the timer started for it.  The
\* timers all run for 5 seconds, so they fire in the order they were started
\* and the displayed notification belongs to the newest of them: a timer
\* that clears a displayed notification is the only one pending.
C34_OwnTimerOnly ==
  [][timers' < timers /\ message # "" => timers = 1]_vars

\* The provider reported success to the request served: every outbound call
\* settled with a success status and the body of the last one says so
vtProviderSucceeded ==
  /\ vtOutcomes = <<"ok", "ok">>
  /\ Len(vtPollLog) >= 1
  /\ LET r == vtPollLog[Len(vtPollLog)]
     IN r.kind = "json" /\ r.ok /\ r.status = "completed"
smProviderSucceeded == smResult.kind = "json"
emProviderSucceeded == emResult = "ok"

\* An exception was thrown while the POST was served: the request body did
\* not parse, an outbound fetch rejected, or a provider response did not
\* parse
vtThrew ==
  /\ vtReq.method = "POST"
  /\ \/ ~vtReq.form
     \/ \E i \in 1..Len(vtOutcomes) : vtOutcomes[i] = "throw"
     \/ /\ Len(vtPollLog) >= 1
        /\ vtPollLog[Len(vtPollLog)].kind \in {"throw", "badjson"}
smThrew ==
  /\ smReq.method = "POST"
  /\ ~smReq.json \/ smResult.kind \in {"throw", "badjson", "nochoices"}
emThrew ==
  /\ emReq.method = "POST"
  /\ ~emReq.json \/ emResult \in {"throw", "badjson"}

StatusSet == {200, 400, 405, 500}

\* C35, the status part: every response has a status in {200, 400, 405, 500}
C35_StatusInSet ==
  /\ vtPc = "done" => vtResponse.status \in StatusSet
  /\ smPc = "done" => smResponse.status \in StatusSet
  /\ emPc = "done" => emResponse.status \in StatusSet

\* C35, the exception part: a POST during which an exception was thrown is
\* answered with 500
C35_ExceptionsAre500 ==
  /\ vtPc = "done" /\ vtThrew => vtResponse.status = 500
  /\ smPc = "done" /\ smThrew => smResponse.status = 500
  /\ emPc = "done" /\ emThrew => emResponse.status = 500

\* C35, the single response part: there is no response before the handler
\* is done, and the response of a handler that is done never changes
C35_OneResponse ==
  [][/\ vtPc' # "done" => vtResponse' = NoResponse
     /\ smPc' # "done" => smResponse' = NoResponse
     /\ emPc' # "done" => emResponse' = NoResponse
     /\ vtPc = "done" => vtPc' = "done" /\ vtResponse' = vtResponse
     /\ smPc = "done" => smPc' = "done" /\ smResponse' = smResponse
     /\ emPc = "done" => emPc' = "done" /\ emResponse' = emResponse]_vars

\* C35: a POST is answered with 200 only after the provider reported
\* success.
C35_OkAfterSuccess ==
  /\ vtPc = "done" /\ vtReq.method = "POST" /\ vtResponse.status = 200
       => vtProviderSucceeded
  /\ smPc = "done" /\ smReq.method = "POST" /\ smResponse.status = 200
       => smProviderSucceeded
  /\ emPc = "done" /\ emReq.method = "POST" /\ emResponse.status = 200
       => emProviderSucceeded

\* The body of the POST parsed and a required input is absent or empty
smLacksInput ==
  /\ smReq.method = "POST" /\ smReq.json
  /\ MissingOrEmpty(smReq.transcript) \/ MissingOrEmpty(smReq.prompt)
emLacksInput ==
  /\ emReq.method = "POST" /\ emReq.json
  /\ \/ emReq.recipients \in {NoRecipients, ArrayOf(<<>>)}
     \/ MissingOrEmpty(emReq.summary)
vtLacksInput ==
  /\ vtReq.method = "POST" /\ vtReq.form
  /\ vtReq.audio = NoFile

\* The order of the checks, for one endpoint: a request of another method
\* is answered before anything is read, a POST that lacks input is answered
\* 400 without a look at the key, whatever the environment holds
CheckOrder(pc, req, lacks, reads, response) ==
  pc # "idle" =>
    /\ req.method # "POST" => reads = {} /\ response.status \in {200, 405}
    /\ lacks => response.status = 400 /\ "key" \notin reads
    /\ "key" \in reads => req.method = "POST" /\ "body" \in reads /\ ~lacks

\* C36: each endpoint checks the method, then the required input, then the
\* credentials: a POST that lacks required input is answered 400 even when
\* the provider key is absent as well, and the key is looked up only for
\* requests that passed the input validation.
C36_CheckOrder ==
  /\ CheckOrder(smPc, smReq, smLacksInput, smReads, smResponse)
  /\ CheckOrder(emPc, emReq, emLacksInput, emReads, emResponse)
  /\ CheckOrder(vtPc, vtReq, vtLacksInput, vtReads, vtResponse)

\* A POST without a prompt was answered 400 by a function whose environment
\* holds no key
C36_Witness ==
  /\ smPc = "done"
  /\ smLacksInput
  /\ smEnv = Null
  /\ smResponse.status = 400
  /\ smReads = {"body"}
====
